---- MODULE Spec2Model ----
(***************************************************************************)
(* resort360: rooms, bookings, maintenance windows, seasonal pricing and   *)
(* discounts as kept by the room and booking controllers.                  *)
(*                                                                         *)
(* Dates are whole days 0..MaxDate.  A document of the store is a record;  *)
(* an embedded array (seasonalPricing, discounts, maintenanceHistory) is a *)
(* sequence, and a subdocument's _id is its position in the array.         *)
(***************************************************************************)
EXTENDS Integers, Sequences, FiniteSets, TLC

\* ------------------------------------------------------------------ bounds
MaxDate == 2
MaxProbeDate == 3
MaxBookings == 2
MaxStays == 1
MaxMaint == 1
MaxEntries == 2
MaxTasks == 2
MaxInFlight == 1
MaxPriced == 3
MaxDocs == 1

Dates == 0..MaxDate
\* new Date(<unparsable string>): the Invalid Date, for which isNaN(getTime())
NaD == -1
DateInputs == Dates \cup {NaD}
ProbeIntervals == {iv \in [start : 0..MaxProbeDate, end : 0..MaxProbeDate] : iv.start < iv.end}
\* a field the request does not carry (undefined)
Absent == -2

\* ------------------------------------------------------------------ enums
BOOKING_STATUS == {"pending", "confirmed", "checked-in", "checked-out", "cancelled"}
PAYMENT_STATUS == {"pending", "partial", "paid", "refunded"}
MAINTENANCE_STATUS == {"scheduled", "in-progress", "completed", "cancelled"}
ROOM_STATUS == {"available", "occupied", "maintenance", "reserved", "out-of-order"}
DISCOUNT_TYPES == {"early-bird", "last-minute", "long-stay", "special"}

\* the rooms of the store, and an id no room has
RoomIds == {"r1", "r2"}
NoRoom == "r0"
RoomRefs == RoomIds \cup {NoRoom}

\* ------------------------------------------------------------------- state
VARIABLES
  rooms,      \* Room collection: id -> document
  bookings,   \* Booking collection: sequence of documents, _id = position
  tasks,      \* per-item tasks of a bulk handler running under Promise.all,
              \* and the handlers of other requests waiting at an await
  resp,       \* the last response sent
  probe,      \* overlap engine: the candidate interval and the last verdict
  users,      \* User collection: sequence of documents
  registers   \* register requests in flight and answered, with their position

vars == <<rooms, bookings, tasks, resp, probe, users, registers>>

NoResp == [op |-> "none"]
NoProbe == [site |-> "none"]
Idle == resp = NoResp

\* A room document as Room.create leaves it (schema defaults).
NewRoom(price) ==
  [status |-> "available", pricePerNight |-> price,
   seasonalPricing |-> <<>>, discounts |-> <<>>, maintenanceHistory |-> <<>>,
   ratings |-> <<>>]

InitRooms == [r \in RoomIds |-> NewRoom(IF r = "r1" THEN 100 ELSE 150)]

\* Array.prototype.splice(i, 1)
Splice(s, i) == [k \in 1..(Len(s) - 1) |-> IF k < i THEN s[k] ELSE s[k + 1]]

\* --------------------------------------------------- the overlap tests
\* addSeasonalPricing: room.seasonalPricing.some(...)
AddSeasonalHasOverlap_Strict(room, startDate, endDate) ==
  \E i \in DOMAIN room.seasonalPricing :
     /\ startDate < room.seasonalPricing[i].endDate
     /\ endDate > room.seasonalPricing[i].startDate

AddSeasonalHasOverlap(room, startDate, endDate) ==
  \E i \in DOMAIN room.seasonalPricing :
     /\ startDate <= room.seasonalPricing[i].endDate
     /\ endDate >= room.seasonalPricing[i].startDate

\* updateSeasonalPricing: some((pricing, index) => index !== pricingIndex && ...)
UpdateSeasonalHasOverlap(room, pricingIndex, startDate, endDate) ==
  \E index \in DOMAIN room.seasonalPricing :
     /\ index # pricingIndex
     /\ startDate <= room.seasonalPricing[index].endDate
     /\ endDate >= room.seasonalPricing[index].startDate

AddDiscountHasOverlap_Strict(room, type, validFrom, validUntil) ==
  \E i \in DOMAIN room.discounts :
     /\ room.discounts[i].type = type
     /\ validFrom < room.discounts[i].validUntil
     /\ validUntil > room.discounts[i].validFrom

\* addDiscount: room.discounts.some(discount => discount.type === type && ...)
AddDiscountHasOverlap(room, type, validFrom, validUntil) ==
  \E i \in DOMAIN room.discounts :
     /\ room.discounts[i].type = type
     /\ validFrom <= room.discounts[i].validUntil
     /\ validUntil >= room.discounts[i].validFrom

\* updateDiscount
UpdateDiscountHasOverlap(room, discountIndex, type, validFrom, validUntil) ==
  \E index \in DOMAIN room.discounts :
     /\ index # discountIndex
     /\ room.discounts[index].type = type
     /\ validFrom <= room.discounts[index].validUntil
     /\ validUntil >= room.discounts[index].validFrom

\* manageRoomMaintenance: Booking.find({room, status: {$nin: ['cancelled']},
\*   $or: [{checkIn: {$lte: end}, checkOut: {$gte: start}}]})
ConflictingBookings_All(roomId, start, end) ==
  {i \in DOMAIN bookings :
     /\ bookings[i].room = roomId
     /\ bookings[i].checkIn <= end
     /\ bookings[i].checkOut >= start}

ConflictingBookings(roomId, start, end) ==
  {i \in DOMAIN bookings :
     /\ bookings[i].room = roomId
     /\ bookings[i].status \notin {"cancelled"}
     /\ bookings[i].checkIn <= end
     /\ bookings[i].checkOut >= start}

\* scheduleBulkMaintenance: Booking.exists({room, status: {$nin: ['cancelled']}, ...})
HasConflicts(roomId, startDate, endDate) ==
  \E i \in DOMAIN bookings :
     /\ bookings[i].room = roomId
     /\ bookings[i].status \notin {"cancelled"}
     /\ bookings[i].checkIn <= endDate
     /\ bookings[i].checkOut >= startDate

\* getAllRooms: Booking.distinct('room', {$and: [{status: {$nin: ['cancelled']}},
\*   {$or: [{checkIn: {$lte: checkOut}, checkOut: {$gte: checkIn}}]}]})
UnavailableRoomIds_Exclusive(checkIn, checkOut) ==
  {bookings[i].room : i \in
     {j \in DOMAIN bookings :
        /\ bookings[j].status \notin {"cancelled"}
        /\ bookings[j].checkIn < checkOut
        /\ bookings[j].checkOut > checkIn}}

UnavailableRoomIds(checkIn, checkOut) ==
  {bookings[i].room : i \in
     {j \in DOMAIN bookings :
        /\ bookings[j].status \notin {"cancelled"}
        /\ bookings[j].checkIn <= checkOut
        /\ bookings[j].checkOut >= checkIn}}

\* checkRoomAvailability: room.populate({path: 'bookings',
\*   match: {$or: [{checkIn: {$lte: endDate}, checkOut: {$gte: startDate}}]}})
\* (the virtual 'bookings' joins Booking.room to the room's _id; the match
\*  names no status)
ExistingBookings(roomId, startDate, endDate) ==
  {i \in DOMAIN bookings :
     /\ bookings[i].room = roomId
     /\ bookings[i].checkIn <= endDate
     /\ bookings[i].checkOut >= startDate}

\* ============================================================ overlap engine
\* One stored interval b (as a seasonal window, a discount and a booking of
\* room r1) and one candidate interval a; each probe runs one handler's own
\* conflict test for a against the stored b.
Sites == {"addSeasonalPricing", "updateSeasonalPricing", "addDiscount", "updateDiscount",
          "manageRoomMaintenance", "scheduleBulkMaintenance", "getAllRooms",
          "checkRoomAvailability"}

InitOverlap ==
  \E a \in ProbeIntervals, b \in ProbeIntervals :
    /\ rooms = [InitRooms EXCEPT
         !["r1"].seasonalPricing = <<[startDate |-> b.start, endDate |-> b.end, price |-> 200]>>,
         !["r1"].discounts = <<[type |-> "special", percentage |-> 20,
                                validFrom |-> b.start, validUntil |-> b.end]>>]
    /\ bookings = <<[room |-> "r1", guest |-> "g1", checkIn |-> b.start, checkOut |-> b.end,
                     status |-> "confirmed", paymentStatus |-> "pending",
                     totalPrice |-> 100, addOns |-> <<>>]>>
    /\ tasks = <<>>
    /\ resp = NoResp
    /\ probe = [site |-> "none", a |-> a, b |-> b, hit |-> FALSE]
    /\ users = <<>>
    /\ registers = <<>>

SiteVerdict(site, a) ==
  CASE site = "addSeasonalPricing" ->
         AddSeasonalHasOverlap(rooms["r1"], a.start, a.end)
    [] site = "updateSeasonalPricing" ->
         \* the entry being updated is another one than the stored b
         UpdateSeasonalHasOverlap(rooms["r1"], 0, a.start, a.end)
    [] site = "addDiscount" ->
         AddDiscountHasOverlap(rooms["r1"], "special", a.start, a.end)
    [] site = "updateDiscount" ->
         UpdateDiscountHasOverlap(rooms["r1"], 0, "special", a.start, a.end)
    [] site = "manageRoomMaintenance" ->
         ConflictingBookings("r1", a.start, a.end) # {}
    [] site = "scheduleBulkMaintenance" ->
         HasConflicts("r1", a.start, a.end)
    [] site = "getAllRooms" ->
         "r1" \in UnavailableRoomIds(a.start, a.end)
    [] site = "checkRoomAvailability" ->
         ExistingBookings("r1", a.start, a.end) # {}

ProbeSite ==
  \E site \in Sites :
    /\ probe' = [probe EXCEPT !.site = site, !.hit = SiteVerdict(site, probe.a)]
    /\ UNCHANGED <<rooms, bookings, tasks, resp, users, registers>>

NextOverlap == ProbeSite

SpecOverlap == InitOverlap /\ [][NextOverlap]_vars

\* C1: every handler's conflict test answers, for a candidate a and a stored
\* interval b (both with start < end), exactly a.start <= b.end and
\* a.end >= b.start.
C1_SameOverlapPredicate ==
  probe.site # "none" =>
    (probe.hit <=> (probe.a.start <= probe.b.end /\ probe.a.end >= probe.b.start))

\* a candidate that starts on the day the stored interval ends was tested, and hit
C1_Witness ==
  /\ probe.site = "getAllRooms"
  /\ probe.a.start = probe.b.end
  /\ probe.hit

\* ================================================================= bookings
\* Every handler answers one request; the next request is taken once the
\* response is out.
EndRequest ==
  /\ resp # NoResp
  /\ resp' = NoResp
  /\ UNCHANGED <<rooms, bookings, tasks, probe, users, registers>>

\* Math.ceil((checkOut - checkIn) / (1000 * 60 * 60 * 24)) on whole days
NumberOfNights(checkIn, checkOut) == checkOut - checkIn

\* a field of the request body, or the value taken when the body has none
Field(body, name, default) == IF name \in DOMAIN body THEN body[name] ELSE default

\* the document with the body spread last: {guest, totalPrice, ...req.body}
NewBooking_BodyLast(user, body, room) ==
  [room |-> body.room,
   guest |-> Field(body, "guest", user),
   checkIn |-> body.checkIn, checkOut |-> body.checkOut,
   status |-> Field(body, "status", "pending"),
   paymentStatus |-> Field(body, "paymentStatus", "pending"),
   totalPrice |-> Field(body, "totalPrice",
                        NumberOfNights(body.checkIn, body.checkOut) * room.pricePerNight),
   addOns |-> Field(body, "addOns", <<>>)]

\* Booking.create({...req.body, guest: req.user._id, totalPrice})
NewBooking(user, body, room) ==
  [room |-> body.room, guest |-> user,
   checkIn |-> body.checkIn, checkOut |-> body.checkOut,
   status |-> Field(body, "status", "pending"),
   paymentStatus |-> Field(body, "paymentStatus", "pending"),
   totalPrice |-> NumberOfNights(body.checkIn, body.checkOut) * room.pricePerNight,
   addOns |-> Field(body, "addOns", <<>>)]

\* createBooking: body = {room, checkIn, checkOut}, and whatever else the
\* request sends; user = req.user._id
CreateBooking(user, body) ==
  /\ Idle
  /\ IF body.room \notin DOMAIN rooms
     THEN /\ resp' = [op |-> "createBooking", code |-> 404]
          /\ UNCHANGED bookings
     ELSE IF \/ body.checkIn = NaD \/ body.checkOut = NaD
             \/ Field(body, "status", "pending") \notin BOOKING_STATUS
     THEN \* Booking.create rejects: Cast to date failed, or the status enum
          /\ resp' = [op |-> "createBooking", code |-> 400]
          /\ UNCHANGED bookings
     ELSE /\ bookings' = Append(bookings, NewBooking(user, body, rooms[body.room]))
          /\ resp' = [op |-> "createBooking", code |-> 201]
  /\ UNCHANGED <<rooms, tasks, probe, users, registers>>

\* Object fields of an update body that are present replace the stored ones
Patched(old, new) == IF new = Absent THEN old ELSE new

\* updateBooking: Booking.findByIdAndUpdate(id, req.body, {runValidators: true});
\* body = {checkIn, checkOut, status}, each optional, and whatever else the
\* request sends: the body is the update, unfiltered
UpdateBooking(id, body) ==
  /\ Idle
  /\ IF \/ body.checkIn = NaD \/ body.checkOut = NaD
        \/ body.status \notin BOOKING_STATUS \cup {"absent"}
        \/ Field(body, "paymentStatus", "pending") \notin PAYMENT_STATUS
     THEN /\ resp' = [op |-> "updateBooking", code |-> 400]
          /\ UNCHANGED bookings
     ELSE IF id \notin DOMAIN bookings
     THEN /\ resp' = [op |-> "updateBooking", code |-> 404]
          /\ UNCHANGED bookings
     ELSE /\ bookings' = [bookings EXCEPT
               ![id].checkIn = Patched(@, body.checkIn),
               ![id].checkOut = Patched(@, body.checkOut),
               ![id].status = IF body.status = "absent" THEN @ ELSE body.status,
               ![id].paymentStatus = Field(body, "paymentStatus", @),
               ![id].guest = Field(body, "guest", @),
               ![id].totalPrice = Field(body, "totalPrice", @)]
          /\ resp' = [op |-> "updateBooking", code |-> 200]
  /\ UNCHANGED <<rooms, tasks, probe, users, registers>>

\* updateBookingStatus: Booking.findByIdAndUpdate(id, {status}, {runValidators: true})
UpdateBookingStatus(id, status) ==
  /\ Idle
  /\ IF status \notin BOOKING_STATUS
     THEN /\ resp' = [op |-> "updateBookingStatus", code |-> 400]
          /\ UNCHANGED bookings
     ELSE IF id \notin DOMAIN bookings
     THEN /\ resp' = [op |-> "updateBookingStatus", code |-> 404]
          /\ UNCHANGED bookings
     ELSE /\ bookings' = [bookings EXCEPT ![id].status = status]
          /\ resp' = [op |-> "updateBookingStatus", code |-> 200]
  /\ UNCHANGED <<rooms, tasks, probe, users, registers>>

\* cancelBooking: Booking.findByIdAndUpdate(id, {status: 'cancelled', cancellation})
CancelBooking(id) ==
  /\ Idle
  /\ IF id \notin DOMAIN bookings
     THEN /\ resp' = [op |-> "cancelBooking", code |-> 404]
          /\ UNCHANGED bookings
     ELSE /\ bookings' = [bookings EXCEPT ![id].status = "cancelled"]
          /\ resp' = [op |-> "cancelBooking", code |-> 200]
  /\ UNCHANGED <<rooms, tasks, probe, users, registers>>

\* the request values the model draws
BookingBodies == [room : RoomRefs, checkIn : DateInputs, checkOut : DateInputs]
UpdateBodies == [checkIn : DateInputs \cup {Absent}, checkOut : DateInputs \cup {Absent},
                 status : {"absent", "confirmed", "bogus"}]
StatusInputs == {"confirmed", "cancelled", "bogus"}
BookingRefs == 1..(MaxBookings + 1)

Init ==
  /\ rooms = InitRooms
  /\ bookings = <<>>
  /\ tasks = <<>>
  /\ resp = NoResp
  /\ probe = NoProbe
  /\ users = <<>>
  /\ registers = <<>>

Next ==
  \/ /\ Len(bookings) < MaxBookings
     /\ \E body \in BookingBodies : CreateBooking("g1", body)
  \/ \E id \in BookingRefs, body \in UpdateBodies : UpdateBooking(id, body)
  \/ \E id \in BookingRefs, status \in StatusInputs : UpdateBookingStatus(id, status)
  \/ \E id \in BookingRefs : CancelBooking(id)
  \/ EndRequest

Spec == Init /\ [][Next]_vars

\* the claim's own overlap of two stays: inclusive at both ends
StaysOverlap(b1, b2) == b1.checkIn <= b2.checkOut /\ b1.checkOut >= b2.checkIn
WellFormedStay(b) == b.checkIn < b.checkOut
Live(b) == b.status # "cancelled"

\* C2: no two bookings of one room that are both not cancelled have overlapping
\* (well-formed) stays, and a createBooking answered 201 stored a stay that
\* overlaps no other live booking of its room.
C2_NoDoubleBooking ==
  /\ \A i, j \in DOMAIN bookings :
       (/\ i # j
        /\ bookings[i].room = bookings[j].room
        /\ Live(bookings[i]) /\ Live(bookings[j])
        /\ WellFormedStay(bookings[i]) /\ WellFormedStay(bookings[j]))
       => ~StaysOverlap(bookings[i], bookings[j])
  /\ (resp.op = "createBooking" /\ resp.code = 201) =>
       \A j \in 1..(Len(bookings) - 1) :
         (/\ bookings[j].room = bookings[Len(bookings)].room
          /\ Live(bookings[j])
          /\ WellFormedStay(bookings[j]) /\ WellFormedStay(bookings[Len(bookings)]))
         => ~StaysOverlap(bookings[j], bookings[Len(bookings)])

\* ============================================================= availability
\* checkRoomAvailability: GET /:id/availability?startDate=&endDate=
CheckRoomAvailability(id, startDate, endDate) ==
  /\ Idle
  /\ IF startDate = Absent \/ endDate = Absent
     THEN resp' = [op |-> "checkRoomAvailability", code |-> 400]
     ELSE IF id \notin DOMAIN rooms
     THEN resp' = [op |-> "checkRoomAvailability", code |-> 404]
     ELSE resp' = [op |-> "checkRoomAvailability", code |-> 200,
                   room |-> id, startDate |-> startDate, endDate |-> endDate,
                   isAvailable |-> (ExistingBookings(id, startDate, endDate) = {}),
                   existingBookings |-> ExistingBookings(id, startDate, endDate)]
  /\ UNCHANGED <<rooms, bookings, tasks, probe, users, registers>>

\* getAllRooms: GET /?checkIn=&checkOut= (no other filter; one page holds every room)
GetAllRooms(checkIn, checkOut) ==
  /\ Idle
  /\ IF checkIn # Absent /\ checkOut # Absent
     THEN IF checkIn = NaD \/ checkOut = NaD
          THEN resp' = [op |-> "getAllRooms", code |-> 400]
          ELSE IF checkIn >= checkOut
          THEN resp' = [op |-> "getAllRooms", code |-> 400]
          ELSE resp' = [op |-> "getAllRooms", code |-> 200,
                        checkIn |-> checkIn, checkOut |-> checkOut,
                        data |-> DOMAIN rooms \ UnavailableRoomIds(checkIn, checkOut)]
     ELSE resp' = [op |-> "getAllRooms", code |-> 200,
                   checkIn |-> Absent, checkOut |-> Absent, data |-> DOMAIN rooms]
  /\ UNCHANGED <<rooms, bookings, tasks, probe, users, registers>>

\* updateOccupancyStats: Booking.find({room, checkOut: {$gte: oneYearAgo},
\*   status: {$nin: ['cancelled']}}); every date of the model lies in the last year
OccupancyBookings(roomId) ==
  {i \in DOMAIN bookings :
     /\ bookings[i].room = roomId
     /\ bookings[i].checkOut >= 0
     /\ bookings[i].status \notin {"cancelled"}}

\* getRoomStatistics: Booking.find({checkIn: {$gte: start}, checkOut: {$lte: end},
\*   status: {$ne: 'cancelled'}})
StatisticsBookings(start, end) ==
  {i \in DOMAIN bookings :
     /\ bookings[i].checkIn >= start
     /\ bookings[i].checkOut <= end
     /\ bookings[i].status # "cancelled"}

QueryDates == Dates \cup {Absent}
FilterDates == DateInputs \cup {Absent}
StayRefs == 1..(MaxStays + 1)

NextAvail ==
  \/ /\ Len(bookings) < MaxStays
     /\ \E body \in BookingBodies : CreateBooking("g1", body)
  \/ \E id \in StayRefs : CancelBooking(id)
  \/ \E id \in RoomRefs, startDate \in QueryDates, endDate \in QueryDates :
       CheckRoomAvailability(id, startDate, endDate)
  \/ \E checkIn \in FilterDates, checkOut \in FilterDates : GetAllRooms(checkIn, checkOut)
  \/ EndRequest

SpecAvail == Init /\ [][NextAvail]_vars

\* C3: with a live booking [s,e] (s < e) of a room stored, an availability
\* check of that room for a stay that starts at e reports it not available,
\* and a room search for such a stay leaves the room out.
C3_InclusiveBoundary ==
  /\ (resp.op = "checkRoomAvailability" /\ resp.code = 200) =>
       \A i \in DOMAIN bookings :
         (/\ bookings[i].room = resp.room
          /\ Live(bookings[i]) /\ WellFormedStay(bookings[i])
          /\ resp.startDate = bookings[i].checkOut
          /\ resp.startDate < resp.endDate)
         => ~resp.isAvailable
  /\ (resp.op = "getAllRooms" /\ resp.code = 200 /\ resp.checkIn # Absent) =>
       \A i \in DOMAIN bookings :
         (/\ Live(bookings[i]) /\ WellFormedStay(bookings[i])
          /\ resp.checkIn = bookings[i].checkOut)
         => bookings[i].room \notin resp.data

\* a live booking [0,1] of r1 and the answer to a check of r1 for [1,2]
C3_Witness ==
  /\ resp.op = "checkRoomAvailability" /\ resp.code = 200
  /\ resp.room = "r1" /\ resp.startDate = 1 /\ resp.endDate = 2
  /\ \E i \in DOMAIN bookings :
       /\ bookings[i].room = "r1" /\ Live(bookings[i])
       /\ bookings[i].checkIn = 0 /\ bookings[i].checkOut = 1
  /\ ~resp.isAvailable

\* the claim's candidate/booking overlap
Overlaps(aStart, aEnd, bStart, bEnd) == aStart <= bEnd /\ aEnd >= bStart

\* C4: when every booking of a room that overlaps the candidate is cancelled,
\* checkRoomAvailability answers isAvailable = true and getAllRooms keeps the
\* room; no cancelled booking is counted by updateOccupancyStats or
\* getRoomStatistics.
C4_CancelledNeverCounts ==
  /\ (resp.op = "checkRoomAvailability" /\ resp.code = 200) =>
       ((\A i \in DOMAIN bookings :
           (bookings[i].room = resp.room
            /\ Overlaps(resp.startDate, resp.endDate, bookings[i].checkIn, bookings[i].checkOut))
           => ~Live(bookings[i]))
        => resp.isAvailable)
  /\ (resp.op = "getAllRooms" /\ resp.code = 200 /\ resp.checkIn # Absent) =>
       \A r \in DOMAIN rooms :
         (\A i \in DOMAIN bookings :
            (bookings[i].room = r
             /\ Overlaps(resp.checkIn, resp.checkOut, bookings[i].checkIn, bookings[i].checkOut))
            => ~Live(bookings[i]))
         => r \in resp.data
  /\ \A i \in DOMAIN bookings :
       ~Live(bookings[i]) =>
         /\ i \notin OccupancyBookings(bookings[i].room)
         /\ \A start \in Dates, end \in Dates : i \notin StatisticsBookings(start, end)

\* ============================================================== maintenance
\* manageRoomMaintenance: POST /:roomId/maintenance;
\* body = {maintenanceType, startDate, endDate, status = 'scheduled'}
ManageRoomMaintenance(roomId, body) ==
  LET status == IF body.status = "absent" THEN "scheduled" ELSE body.status
      maintenance == [type |-> body.maintenanceType, startDate |-> body.startDate,
                      endDate |-> body.endDate, status |-> status]
      Answer(code, error) ==
        [op |-> "manageRoomMaintenance", code |-> code, error |-> error, room |-> roomId]
  IN
  /\ Idle
  /\ IF body.maintenanceType = "absent" \/ body.startDate = Absent \/ body.endDate = Absent
     THEN /\ resp' = Answer(400, "missing")
          /\ UNCHANGED rooms
     ELSE IF body.startDate = NaD \/ body.endDate = NaD
     THEN /\ resp' = Answer(400, "invalid date")
          /\ UNCHANGED rooms
     ELSE IF body.startDate >= body.endDate
     THEN /\ resp' = Answer(400, "start not before end")
          /\ UNCHANGED rooms
     ELSE IF roomId \notin DOMAIN rooms
     THEN /\ resp' = Answer(404, "room not found")
          /\ UNCHANGED rooms
     ELSE IF ConflictingBookings(roomId, body.startDate, body.endDate) # {}
     THEN /\ resp' = Answer(400, "conflict")
          /\ UNCHANGED rooms
     ELSE /\ rooms' = [rooms EXCEPT
               ![roomId].maintenanceHistory = Append(@, maintenance),
               ![roomId].status = IF status = "in-progress" THEN "maintenance" ELSE @]
          /\ resp' = Answer(200, "none")
  /\ UNCHANGED <<bookings, tasks, probe, users, registers>>

MaintenanceBodies ==
  [maintenanceType : {"repair", "absent"},
   startDate : DateInputs \cup {Absent}, endDate : DateInputs \cup {Absent},
   status : {"absent", "in-progress", "completed"}]

\* the maintenance records held by all rooms together
TotalMaintenance ==
  LET RECURSIVE Sum(_)
      Sum(S) == IF S = {} THEN 0
                ELSE LET r == CHOOSE x \in S : TRUE
                     IN Len(rooms[r].maintenanceHistory) + Sum(S \ {r})
  IN Sum(DOMAIN rooms)

NextMaint ==
  \/ /\ Len(bookings) < MaxStays
     /\ \E body \in BookingBodies : CreateBooking("g1", body)
  \/ \E id \in StayRefs : CancelBooking(id)
  \/ /\ TotalMaintenance < MaxMaint
     /\ \E roomId \in RoomRefs, body \in MaintenanceBodies : ManageRoomMaintenance(roomId, body)
  \/ EndRequest

SpecMaint == Init /\ [][NextMaint]_vars

NextAvailMaint ==
  \/ NextMaint
  \/ \E id \in RoomRefs, startDate \in QueryDates, endDate \in QueryDates :
       CheckRoomAvailability(id, startDate, endDate)

SpecAvailMaint == Init /\ [][NextAvailMaint]_vars

ActiveMaintenance(m) == m.status \in {"scheduled", "in-progress"}

\* C5: checkRoomAvailability reports a room available for a candidate interval
\* only if no scheduled or in-progress maintenance window of the room overlaps
\* the candidate, the room is not out-of-order and no live booking of the room
\* overlaps the candidate.
C5_AvailabilityCountsMaintenance ==
  (resp.op = "checkRoomAvailability" /\ resp.code = 200 /\ resp.isAvailable) =>
    /\ \A k \in DOMAIN rooms[resp.room].maintenanceHistory :
         LET m == rooms[resp.room].maintenanceHistory[k] IN
         ActiveMaintenance(m) =>
           ~Overlaps(resp.startDate, resp.endDate, m.startDate, m.endDate)
    /\ rooms[resp.room].status # "out-of-order"
    /\ \A i \in DOMAIN bookings :
         (bookings[i].room = resp.room /\ Live(bookings[i])) =>
           ~Overlaps(resp.startDate, resp.endDate, bookings[i].checkIn, bookings[i].checkOut)

\* the requests the claim is about: a type and a window with start < end
WellFormedMaintenance ==
  {body \in MaintenanceBodies :
     /\ body.maintenanceType # "absent"
     /\ body.startDate \in Dates /\ body.endDate \in Dates
     /\ body.startDate < body.endDate}

\* C6: manageRoomMaintenance, for a window with start < end on a stored room:
\* if a live booking of the room overlaps the window the request fails with the
\* conflict error and the rooms are unchanged; otherwise exactly one record is
\* appended to the room's maintenanceHistory, room.status becomes 'maintenance'
\* if the record is 'in-progress' and is unchanged if not, and nothing else
\* changes.
C6_ScheduleMaintenance ==
  [][\A r \in DOMAIN rooms, body \in WellFormedMaintenance :
      (resp'.op = "manageRoomMaintenance" /\ ManageRoomMaintenance(r, body)) =>
        IF \E i \in DOMAIN bookings :
              /\ bookings[i].room = r /\ Live(bookings[i])
              /\ Overlaps(body.startDate, body.endDate, bookings[i].checkIn, bookings[i].checkOut)
        THEN /\ resp'.code = 400 /\ resp'.error = "conflict"
             /\ rooms' = rooms
        ELSE /\ resp'.code = 200
             /\ Len(rooms'[r].maintenanceHistory) = Len(rooms[r].maintenanceHistory) + 1
             /\ SubSeq(rooms'[r].maintenanceHistory, 1, Len(rooms[r].maintenanceHistory))
                  = rooms[r].maintenanceHistory
             /\ LET m == rooms'[r].maintenanceHistory[Len(rooms'[r].maintenanceHistory)]
                IN /\ m.startDate = body.startDate /\ m.endDate = body.endDate
                   /\ m.status = (IF body.status = "absent" THEN "scheduled" ELSE body.status)
                   /\ (m.status = "in-progress" => rooms'[r].status = "maintenance")
                   /\ (m.status # "in-progress" => rooms'[r].status = rooms[r].status)
             /\ \A o \in DOMAIN rooms \ {r} : rooms'[o] = rooms[o]
             /\ bookings' = bookings
  ]_vars

\* maintenance was scheduled over the dates of a cancelled booking of the room
C6_Witness ==
  /\ resp.op = "manageRoomMaintenance" /\ resp.code = 200
  /\ LET h == rooms[resp.room].maintenanceHistory IN
     /\ h # <<>>
     /\ \E i \in DOMAIN bookings :
          /\ bookings[i].room = resp.room /\ ~Live(bookings[i])
          /\ WellFormedStay(bookings[i])
          /\ Overlaps(h[Len(h)].startDate, h[Len(h)].endDate,
                      bookings[i].checkIn, bookings[i].checkOut)

\* ================================================== per-item tasks of a bulk handler
\* rooms.map(async (roomId) => {...}) under Promise.all: every item is a task
\* of its own that awaits Room.findById, then decides on the document it got
\* and awaits room.save().  Tasks of one request, and of requests in flight
\* together, interleave at their awaits.
NoDoc == [missing |-> TRUE]

\* bulkUpdateRooms has no findById: its item is the one findByIdAndUpdate
NewTask(req, op, roomId, data) ==
  [req |-> req, op |-> op, roomId |-> roomId, data |-> data,
   pc |-> IF op = "bulkUpdateRooms" THEN "save" ELSE "find",
   doc |-> NoDoc, outcome |-> "none"]

\* a request id no task in flight carries
FreshReq == CHOOSE q \in 1..(Len(tasks) + 1) : \A t \in DOMAIN tasks : tasks[t].req # q

Spawn(op, roomIds, data) ==
  tasks \o [k \in DOMAIN roomIds |-> NewTask(FreshReq, op, roomIds[k], data)]

\* updates.map(...): every update carries its own room id and data
SpawnUpdates(op, updates) ==
  tasks \o [k \in DOMAIN updates |->
              NewTask(FreshReq, op, updates[k].roomId, updates[k])]

\* const room = await Room.findById(roomId)
TaskFind(t) ==
  /\ t \in DOMAIN tasks
  /\ tasks[t].pc = "find"
  /\ tasks' = [tasks EXCEPT
       ![t].doc = IF tasks[t].roomId \in DOMAIN rooms THEN rooms[tasks[t].roomId] ELSE NoDoc,
       ![t].pc = IF tasks[t].op = "scheduleBulkMaintenance" /\ tasks[t].roomId \in DOMAIN rooms
                 THEN "check" ELSE "save"]
  /\ UNCHANGED <<rooms, bookings, resp, probe, users, registers>>

\* an item's failure rejecting the whole Promise.all
Finish_Abort(t, outcome) ==
  tasks' = [u \in DOMAIN tasks |->
              IF u = t \/ (outcome = "failed" /\ tasks[u].req = tasks[t].req /\ tasks[u].pc # "done")
              THEN [tasks[u] EXCEPT !.pc = "done", !.outcome = outcome]
              ELSE tasks[u]]

\* try {...; results.success.push(...)} catch (error) {results.failed.push(...)}
Finish(t, outcome) == tasks' = [tasks EXCEPT ![t].pc = "done", ![t].outcome = outcome]

\* a date field a stored subdocument can hold: save() rejects the Invalid Date
Storable(d) == d # NaD

\* addSeasonalPricing, one item: the test is made on the document the item
\* read; room.seasonalPricing.push(pricingData) is saved as a $push
SaveAddSeasonal(t) ==
  LET T == tasks[t] IN
  IF T.doc = NoDoc \/ AddSeasonalHasOverlap(T.doc, T.data.startDate, T.data.endDate)
  THEN Finish(t, "failed") /\ UNCHANGED rooms
  ELSE /\ rooms' = [rooms EXCEPT ![T.roomId].seasonalPricing = Append(@, T.data)]
       /\ Finish(t, "success")

\* addDiscount, one item
SaveAddDiscount(t) ==
  LET T == tasks[t] IN
  IF T.doc = NoDoc
     \/ AddDiscountHasOverlap(T.doc, T.data.type, T.data.validFrom, T.data.validUntil)
  THEN Finish(t, "failed") /\ UNCHANGED rooms
  ELSE /\ rooms' = [rooms EXCEPT ![T.roomId].discounts = Append(@, T.data)]
       /\ Finish(t, "success")

\* an optional field of a request body: <<>> when the body does not carry it,
\* <<value>> when it does
NoEntry == <<>>
Some(S) == {<<x>> : x \in S}

\* updateBulkPricing, one item: pricingData.seasonalPricing and
\* pricingData.discounts are pushed as they come; save() writes the paths that
\* differ from the document read
SaveBulkPricing(t) ==
  LET T == tasks[t]
      hasSp == T.data.seasonalPricing # NoEntry
      hasDi == T.data.discounts # NoEntry
      sp == T.data.seasonalPricing[1]
      di == T.data.discounts[1]
  IN
  IF T.doc = NoDoc
  THEN Finish(t, "failed") /\ UNCHANGED rooms
  ELSE IF \/ (hasSp /\ ~(Storable(sp.startDate) /\ Storable(sp.endDate)))
          \/ (hasDi /\ ~(Storable(di.validFrom) /\ Storable(di.validUntil)))
  THEN Finish(t, "failed") /\ UNCHANGED rooms
  ELSE /\ rooms' = [rooms EXCEPT
            ![T.roomId].pricePerNight = IF T.data.pricePerNight = T.doc.pricePerNight
                                        THEN @ ELSE Patched(@, T.data.pricePerNight),
            ![T.roomId].seasonalPricing = IF hasSp THEN Append(@, sp) ELSE @,
            ![T.roomId].discounts = IF hasDi THEN Append(@, di) ELSE @]
       /\ Finish(t, "success")

\* bulkUpdateRooms, one item: Room.findByIdAndUpdate(roomId, updateData)
SaveBulkUpdate(t) ==
  LET T == tasks[t] IN
  IF T.roomId \notin DOMAIN rooms
  THEN Finish(t, "failed") /\ UNCHANGED rooms
  ELSE /\ rooms' = [rooms EXCEPT
            ![T.roomId].seasonalPricing =
                IF T.data.seasonalPricing = NoEntry THEN @ ELSE T.data.seasonalPricing[1]]
       /\ Finish(t, "success")

\* scheduleBulkMaintenance, one item after its findById:
\* await Booking.exists({room, status: {$nin: ['cancelled']}, ...}), which
\* cannot cast an Invalid Date; a conflict throws at once
TaskCheck(t) ==
  /\ t \in DOMAIN tasks
  /\ tasks[t].pc = "check"
  /\ IF tasks[t].data.startDate = NaD \/ tasks[t].data.endDate = NaD
     THEN Finish(t, "failed")
     ELSE IF HasConflicts(tasks[t].roomId, tasks[t].data.startDate, tasks[t].data.endDate)
     THEN Finish(t, "failed")
     ELSE tasks' = [tasks EXCEPT ![t].pc = "save"]
  /\ UNCHANGED <<rooms, bookings, resp, probe, users, registers>>

\* scheduleBulkMaintenance, one item after the conflict test:
\* room.maintenanceHistory.push({...maintenanceData}); save() validates the
\* record against maintenanceRecordSchema (type is required)
SaveBulkMaintenance(t) ==
  LET T == tasks[t]
      record == [type |-> T.data.type, startDate |-> T.data.startDate, endDate |-> T.data.endDate,
                 status |-> IF T.data.status = "absent" THEN "scheduled" ELSE T.data.status]
  IN
  IF T.doc = NoDoc \/ T.data.type = "absent"
  THEN Finish(t, "failed") /\ UNCHANGED rooms
  ELSE /\ rooms' = [rooms EXCEPT
            ![T.roomId].maintenanceHistory = Append(@, record),
            ![T.roomId].status = IF T.data.status = "in-progress" /\ T.doc.status # "maintenance"
                                 THEN "maintenance" ELSE @]
       /\ Finish(t, "success")

\* updateBulkStatus, one item: room.status = status; save() validates the
\* enum and writes the path when it differs from the document read
SaveBulkStatus(t) ==
  LET T == tasks[t] IN
  IF T.doc = NoDoc \/ T.data.status \notin ROOM_STATUS
  THEN Finish(t, "failed") /\ UNCHANGED rooms
  ELSE /\ rooms' = [rooms EXCEPT ![T.roomId].status =
                         IF T.doc.status = T.data.status THEN @ ELSE T.data.status]
       /\ Finish(t, "success")

TaskSave(t) ==
  /\ t \in DOMAIN tasks
  /\ tasks[t].pc = "save"
  /\ CASE tasks[t].op = "addSeasonalPricing" -> SaveAddSeasonal(t)
       [] tasks[t].op = "addDiscount" -> SaveAddDiscount(t)
       [] tasks[t].op = "updateBulkPricing" -> SaveBulkPricing(t)
       [] tasks[t].op = "bulkUpdateRooms" -> SaveBulkUpdate(t)
       [] tasks[t].op = "scheduleBulkMaintenance" -> SaveBulkMaintenance(t)
       [] tasks[t].op = "updateBulkStatus" -> SaveBulkStatus(t)
  /\ UNCHANGED <<bookings, resp, probe, users, registers>>

TasksOf(req) == SelectSeq(tasks, LAMBDA T : T.req = req)
Others(req) == SelectSeq(tasks, LAMBDA T : T.req # req)
RoomsWith(req, outcome) ==
  LET done == SelectSeq(tasks, LAMBDA T : T.req = req /\ T.outcome = outcome)
  IN [k \in DOMAIN done |-> done[k].roomId]

\* await Promise.all(...) is over: res.status(code).json({data: results})
Respond(req) ==
  /\ Idle
  /\ TasksOf(req) # <<>>
  /\ \A t \in DOMAIN tasks : tasks[t].req = req => tasks[t].pc = "done"
  /\ resp' = [op |-> TasksOf(req)[1].op,
              code |-> IF TasksOf(req)[1].op \in {"addSeasonalPricing", "addDiscount"}
                       THEN 201 ELSE 200,
              success |-> RoomsWith(req, "success"),
              failed |-> RoomsWith(req, "failed")]
  /\ tasks' = Others(req)
  /\ UNCHANGED <<rooms, bookings, probe, users, registers>>

\* ========================================================= seasonal pricing
\* addSeasonalPricing: body = {roomIds, pricingData: {startDate, endDate, price}}
AddSeasonalPricing(roomIds, pricingData) ==
  /\ Idle
  /\ IF pricingData.startDate \in {NaD, Absent} \/ pricingData.endDate \in {NaD, Absent}
     THEN /\ resp' = [op |-> "addSeasonalPricing", code |-> 400]
          /\ UNCHANGED tasks
     ELSE IF pricingData.startDate >= pricingData.endDate
     THEN /\ resp' = [op |-> "addSeasonalPricing", code |-> 400]
          /\ UNCHANGED tasks
     ELSE IF roomIds = <<>>
     THEN /\ resp' = [op |-> "addSeasonalPricing", code |-> 201,
                      success |-> <<>>, failed |-> <<>>]
          /\ UNCHANGED tasks
     ELSE /\ tasks' = Spawn("addSeasonalPricing", roomIds, pricingData)
          /\ UNCHANGED resp
  /\ UNCHANGED <<rooms, bookings, probe, users, registers>>

\* updateSeasonalPricing: PATCH /pricing/seasonal/:id;
\* body = {roomId, startDate, endDate, price}, the last three optional
UpdateSeasonalPricing(id, roomId, updateData) ==
  /\ Idle
  /\ IF roomId \notin DOMAIN rooms
     THEN /\ resp' = [op |-> "updateSeasonalPricing", code |-> 404]
          /\ UNCHANGED rooms
     ELSE IF id \notin DOMAIN rooms[roomId].seasonalPricing
     THEN /\ resp' = [op |-> "updateSeasonalPricing", code |-> 404]
          /\ UNCHANGED rooms
     ELSE LET old == rooms[roomId].seasonalPricing[id]
              startDate == Patched(old.startDate, updateData.startDate)
              endDate == Patched(old.endDate, updateData.endDate)
          IN IF /\ (updateData.startDate # Absent \/ updateData.endDate # Absent)
                /\ startDate # NaD /\ endDate # NaD
                /\ UpdateSeasonalHasOverlap(rooms[roomId], id, startDate, endDate)
             THEN /\ resp' = [op |-> "updateSeasonalPricing", code |-> 400]
                  /\ UNCHANGED rooms
             ELSE IF ~(Storable(startDate) /\ Storable(endDate))
             THEN \* room.save() rejects the Invalid Date
                  /\ resp' = [op |-> "updateSeasonalPricing", code |-> 500]
                  /\ UNCHANGED rooms
             ELSE /\ rooms' = [rooms EXCEPT ![roomId].seasonalPricing[id] =
                         [startDate |-> startDate, endDate |-> endDate,
                          price |-> Patched(old.price, updateData.price)]]
                  /\ resp' = [op |-> "updateSeasonalPricing", code |-> 200]
  /\ UNCHANGED <<bookings, tasks, probe, users, registers>>

\* deleteSeasonalPricing: DELETE /pricing/seasonal/:id; body = {roomId}
DeleteSeasonalPricing(id, roomId) ==
  /\ Idle
  /\ IF roomId \notin DOMAIN rooms
     THEN /\ resp' = [op |-> "deleteSeasonalPricing", code |-> 404]
          /\ UNCHANGED rooms
     ELSE IF id \notin DOMAIN rooms[roomId].seasonalPricing
     THEN /\ resp' = [op |-> "deleteSeasonalPricing", code |-> 404]
          /\ UNCHANGED rooms
     ELSE /\ rooms' = [rooms EXCEPT ![roomId].seasonalPricing = Splice(@, id)]
          /\ resp' = [op |-> "deleteSeasonalPricing", code |-> 204]
  /\ UNCHANGED <<bookings, tasks, probe, users, registers>>

\* updateBulkPricing: body = {rooms, pricingData}
UpdateBulkPricing(roomIds, pricingData) ==
  /\ Idle
  /\ IF roomIds = <<>>
     THEN /\ resp' = [op |-> "updateBulkPricing", code |-> 200,
                      success |-> <<>>, failed |-> <<>>]
          /\ UNCHANGED tasks
     ELSE /\ tasks' = Spawn("updateBulkPricing", roomIds, pricingData)
          /\ UNCHANGED resp
  /\ UNCHANGED <<rooms, bookings, probe, users, registers>>

\* updateRoom: Room.findByIdAndUpdate(id, req.body, {runValidators: true});
\* body = {seasonalPricing}: the array, when given, replaces the stored one
UpdateRoom(id, body) ==
  /\ Idle
  /\ IF id \notin DOMAIN rooms
     THEN /\ resp' = [op |-> "updateRoom", code |-> 404]
          /\ UNCHANGED rooms
     ELSE /\ rooms' = [rooms EXCEPT ![id].seasonalPricing =
                         IF body.seasonalPricing = NoEntry THEN @ ELSE body.seasonalPricing[1]]
          /\ resp' = [op |-> "updateRoom", code |-> 200]
  /\ UNCHANGED <<bookings, tasks, probe, users, registers>>

\* bulkUpdateRooms: body = {updates: [{roomId, ...updateData}]}
BulkUpdateRooms(updates) ==
  /\ Idle
  /\ IF updates = <<>>
     THEN /\ resp' = [op |-> "bulkUpdateRooms", code |-> 200,
                      success |-> <<>>, failed |-> <<>>]
          /\ UNCHANGED tasks
     ELSE /\ tasks' = SpawnUpdates("bulkUpdateRooms", updates)
          /\ UNCHANGED resp
  /\ UNCHANGED <<rooms, bookings, probe, users, registers>>

\* ================================================================ discounts
\* addDiscount: body = {roomIds, discountData: {type, percentage, validFrom, validUntil}}
AddDiscount(roomIds, discountData) ==
  /\ Idle
  /\ IF discountData.validFrom \in {NaD, Absent} \/ discountData.validUntil \in {NaD, Absent}
     THEN /\ resp' = [op |-> "addDiscount", code |-> 400]
          /\ UNCHANGED tasks
     ELSE IF discountData.validFrom >= discountData.validUntil
     THEN /\ resp' = [op |-> "addDiscount", code |-> 400]
          /\ UNCHANGED tasks
     ELSE IF roomIds = <<>>
     THEN /\ resp' = [op |-> "addDiscount", code |-> 201,
                      success |-> <<>>, failed |-> <<>>]
          /\ UNCHANGED tasks
     ELSE /\ tasks' = Spawn("addDiscount", roomIds, discountData)
          /\ UNCHANGED resp
  /\ UNCHANGED <<rooms, bookings, probe, users, registers>>

\* updateDiscount: PATCH /pricing/discounts/:id;
\* body = {roomId, type, validFrom, validUntil}, the last three optional
UpdateDiscount(id, roomId, updateData) ==
  /\ Idle
  /\ IF roomId \notin DOMAIN rooms
     THEN /\ resp' = [op |-> "updateDiscount", code |-> 404]
          /\ UNCHANGED rooms
     ELSE IF id \notin DOMAIN rooms[roomId].discounts
     THEN /\ resp' = [op |-> "updateDiscount", code |-> 404]
          /\ UNCHANGED rooms
     ELSE LET old == rooms[roomId].discounts[id]
              validFrom == Patched(old.validFrom, updateData.validFrom)
              validUntil == Patched(old.validUntil, updateData.validUntil)
              type == IF updateData.type = "absent" THEN old.type ELSE updateData.type
          IN IF /\ (updateData.validFrom # Absent \/ updateData.validUntil # Absent
                       \/ updateData.type # "absent")
                /\ validFrom # NaD /\ validUntil # NaD
                /\ UpdateDiscountHasOverlap(rooms[roomId], id, type, validFrom, validUntil)
             THEN /\ resp' = [op |-> "updateDiscount", code |-> 400]
                  /\ UNCHANGED rooms
             ELSE IF ~(Storable(validFrom) /\ Storable(validUntil))
             THEN /\ resp' = [op |-> "updateDiscount", code |-> 500]
                  /\ UNCHANGED rooms
             ELSE /\ rooms' = [rooms EXCEPT ![roomId].discounts[id] =
                         [type |-> type, percentage |-> old.percentage,
                          validFrom |-> validFrom, validUntil |-> validUntil]]
                  /\ resp' = [op |-> "updateDiscount", code |-> 200]
  /\ UNCHANGED <<bookings, tasks, probe, users, registers>>

\* deleteDiscount: DELETE /pricing/discounts/:id; body = {roomId}
DeleteDiscount(id, roomId) ==
  /\ Idle
  /\ IF roomId \notin DOMAIN rooms
     THEN /\ resp' = [op |-> "deleteDiscount", code |-> 404]
          /\ UNCHANGED rooms
     ELSE IF id \notin DOMAIN rooms[roomId].discounts
     THEN /\ resp' = [op |-> "deleteDiscount", code |-> 404]
          /\ UNCHANGED rooms
     ELSE /\ rooms' = [rooms EXCEPT ![roomId].discounts = Splice(@, id)]
          /\ resp' = [op |-> "deleteDiscount", code |-> 204]
  /\ UNCHANGED <<bookings, tasks, probe, users, registers>>

\* ------------------------------------------------ the requests that are sent
Prices == {200}
SeasonalInputs == [startDate : DateInputs, endDate : DateInputs, price : Prices]
SeasonalUpdates == [startDate : FilterDates, endDate : FilterDates, price : Prices \cup {Absent}]
\* the windows a request body can put in an array without any handler's test
Windows == [startDate : Dates, endDate : Dates, price : Prices]
WellFormedWindows == {w \in Windows : w.startDate < w.endDate}
DiscountInputTypes == {"special", "early-bird"}
DiscountInputs ==
  [type : DiscountInputTypes, percentage : {20}, validFrom : DateInputs, validUntil : DateInputs]
DiscountUpdates ==
  [type : DiscountInputTypes \cup {"absent"}, validFrom : FilterDates, validUntil : FilterDates]

SeqsUpTo(S, n) == UNION {[1..k -> S] : k \in 0..n}
EntryRefs == 1..(MaxEntries + 1)

\* the pricing entries held by all rooms together
TotalEntries ==
  LET RECURSIVE Sum(_)
      Sum(S) == IF S = {} THEN 0
                ELSE LET r == CHOOSE x \in S : TRUE
                     IN Len(rooms[r].seasonalPricing) + Len(rooms[r].discounts) + Sum(S \ {r})
  IN Sum(DOMAIN rooms)

\* room for n more items in flight, each of which may store one entry
RoomFor(n, inFlight) ==
  /\ Len(tasks) + n <= inFlight
  /\ TotalEntries + Len(tasks) + n <= MaxEntries

\* ---------------------------------------- concurrent addSeasonalPricing/addDiscount
NextRace ==
  \/ \E roomIds \in SeqsUpTo(RoomRefs, MaxTasks), pricingData \in SeasonalInputs :
        RoomFor(Len(roomIds), MaxTasks) /\ AddSeasonalPricing(roomIds, pricingData)
  \/ \E roomIds \in SeqsUpTo(RoomRefs, MaxTasks), discountData \in DiscountInputs :
        RoomFor(Len(roomIds), MaxTasks) /\ AddDiscount(roomIds, discountData)
  \/ \E t \in 1..MaxTasks : TaskFind(t)
  \/ \E t \in 1..MaxTasks : TaskSave(t)
  \/ \E req \in 1..MaxTasks : Respond(req)
  \/ EndRequest

SpecRace == Init /\ [][NextRace]_vars

\* C7: one item of addSeasonalPricing, decided on the room document the item
\* read.  A room that was not found, or one holding a window that overlaps the
\* new one (inclusive at both ends), puts the item in failed and leaves every
\* room's stored windows as they were; otherwise the item is in success and the
\* stored list of that room is the old list followed by exactly the new window,
\* every other room and every other field unchanged.
C7_AddSeasonalPricingPerRoom ==
  [][\A t \in DOMAIN tasks :
       (tasks[t].op = "addSeasonalPricing" /\ tasks[t].pc = "save" /\ TaskSave(t)) =>
         LET T == tasks[t] IN
         IF T.doc = NoDoc
         THEN tasks'[t].outcome = "failed" /\ rooms' = rooms
         ELSE IF \E i \in DOMAIN T.doc.seasonalPricing :
                    Overlaps(T.data.startDate, T.data.endDate,
                             T.doc.seasonalPricing[i].startDate, T.doc.seasonalPricing[i].endDate)
         THEN tasks'[t].outcome = "failed" /\ rooms' = rooms
         ELSE /\ tasks'[t].outcome = "success"
              /\ rooms' = [rooms EXCEPT ![T.roomId].seasonalPricing = Append(@, T.data)]
    ]_vars

\* an item was rejected although its room exists, and the window it asked for
\* touches the stored one only at an end point
C7_Witness ==
  \E t \in DOMAIN tasks :
     /\ tasks[t].op = "addSeasonalPricing" /\ tasks[t].pc = "done"
     /\ tasks[t].outcome = "failed" /\ tasks[t].doc # NoDoc
     /\ \E i \in DOMAIN tasks[t].doc.seasonalPricing :
          tasks[t].data.startDate = tasks[t].doc.seasonalPricing[i].endDate

\* C10: of two addSeasonalPricing items (or two addDiscount items of one type)
\* in flight together for the same room with overlapping windows, at most one
\* is in success, and no room holds two overlapping seasonal windows or two
\* overlapping discounts of one type.
C10_NoLostUpdate ==
  /\ \A t1, t2 \in DOMAIN tasks :
       (/\ t1 # t2
        /\ tasks[t1].op = tasks[t2].op
        /\ tasks[t1].roomId = tasks[t2].roomId
        /\ \/ /\ tasks[t1].op = "addSeasonalPricing"
              /\ Overlaps(tasks[t1].data.startDate, tasks[t1].data.endDate,
                          tasks[t2].data.startDate, tasks[t2].data.endDate)
           \/ /\ tasks[t1].op = "addDiscount"
              /\ tasks[t1].data.type = tasks[t2].data.type
              /\ Overlaps(tasks[t1].data.validFrom, tasks[t1].data.validUntil,
                          tasks[t2].data.validFrom, tasks[t2].data.validUntil))
       => ~(tasks[t1].outcome = "success" /\ tasks[t2].outcome = "success")
  /\ \A r \in DOMAIN rooms :
       /\ \A i, j \in DOMAIN rooms[r].seasonalPricing :
            i # j => ~Overlaps(rooms[r].seasonalPricing[i].startDate, rooms[r].seasonalPricing[i].endDate,
                               rooms[r].seasonalPricing[j].startDate, rooms[r].seasonalPricing[j].endDate)
       /\ \A i, j \in DOMAIN rooms[r].discounts :
            (i # j /\ rooms[r].discounts[i].type = rooms[r].discounts[j].type)
            => ~Overlaps(rooms[r].discounts[i].validFrom, rooms[r].discounts[i].validUntil,
                         rooms[r].discounts[j].validFrom, rooms[r].discounts[j].validUntil)

\* ------------------------------------------- every writer of seasonalPricing
RoomUpdates == [seasonalPricing : Some(SeqsUpTo(WellFormedWindows, MaxEntries)) \cup {NoEntry}]
BulkSeasonal == [pricePerNight : {Absent}, seasonalPricing : Some(SeasonalInputs),
                 discounts : {NoEntry}]
BulkUpdates == [roomId : RoomRefs,
                seasonalPricing : Some(SeqsUpTo(WellFormedWindows, MaxEntries)) \cup {NoEntry}]

\* the entries a replacement of one room's array leaves in the rooms
AfterReplace(id, body) ==
  IF id \in DOMAIN rooms /\ body.seasonalPricing # NoEntry
  THEN TotalEntries - Len(rooms[id].seasonalPricing) + Len(body.seasonalPricing[1])
  ELSE TotalEntries

NextPricing ==
  \/ \E roomIds \in SeqsUpTo(RoomRefs, MaxInFlight), pricingData \in SeasonalInputs :
        RoomFor(Len(roomIds), MaxInFlight) /\ AddSeasonalPricing(roomIds, pricingData)
  \/ \E id \in EntryRefs, roomId \in RoomRefs, updateData \in SeasonalUpdates :
        tasks = <<>> /\ UpdateSeasonalPricing(id, roomId, updateData)
  \/ \E id \in EntryRefs, roomId \in RoomRefs :
        tasks = <<>> /\ DeleteSeasonalPricing(id, roomId)
  \/ \E roomIds \in SeqsUpTo(RoomRefs, MaxInFlight), pricingData \in BulkSeasonal :
        RoomFor(Len(roomIds), MaxInFlight) /\ UpdateBulkPricing(roomIds, pricingData)
  \/ \E id \in RoomRefs, body \in RoomUpdates :
        tasks = <<>> /\ AfterReplace(id, body) <= MaxEntries /\ UpdateRoom(id, body)
  \/ \E updates \in SeqsUpTo(BulkUpdates, MaxInFlight) :
        /\ RoomFor(Len(updates), MaxInFlight)
        /\ \A k \in DOMAIN updates : AfterReplace(updates[k].roomId, updates[k]) <= MaxEntries
        /\ BulkUpdateRooms(updates)
  \/ \E t \in 1..MaxInFlight : TaskFind(t)
  \/ \E t \in 1..MaxInFlight : TaskSave(t)
  \/ \E req \in 1..MaxInFlight : Respond(req)
  \/ EndRequest

SpecPricing == Init /\ [][NextPricing]_vars

WellFormedWindow(w) == w.startDate < w.endDate

\* C8: in every room, any two stored seasonal windows (each with its start
\* before its end) are disjoint: neither starts on or before the other's end
\* while ending on or after the other's start.
C8_SeasonalWindowsDisjoint ==
  \A r \in DOMAIN rooms : \A i, j \in DOMAIN rooms[r].seasonalPricing :
     (i # j /\ WellFormedWindow(rooms[r].seasonalPricing[i])
            /\ WellFormedWindow(rooms[r].seasonalPricing[j]))
     => ~Overlaps(rooms[r].seasonalPricing[i].startDate, rooms[r].seasonalPricing[i].endDate,
                  rooms[r].seasonalPricing[j].startDate, rooms[r].seasonalPricing[j].endDate)

\* ------------------------------------------------- every writer of discounts
BulkDiscounts == [pricePerNight : {Absent}, seasonalPricing : {NoEntry},
                  discounts : Some(DiscountInputs)]

NextDiscount ==
  \/ \E roomIds \in SeqsUpTo(RoomRefs, MaxInFlight), discountData \in DiscountInputs :
        RoomFor(Len(roomIds), MaxInFlight) /\ AddDiscount(roomIds, discountData)
  \/ \E id \in EntryRefs, roomId \in RoomRefs, updateData \in DiscountUpdates :
        tasks = <<>> /\ UpdateDiscount(id, roomId, updateData)
  \/ \E id \in EntryRefs, roomId \in RoomRefs :
        tasks = <<>> /\ DeleteDiscount(id, roomId)
  \/ \E roomIds \in SeqsUpTo(RoomRefs, MaxInFlight), pricingData \in BulkDiscounts :
        RoomFor(Len(roomIds), MaxInFlight) /\ UpdateBulkPricing(roomIds, pricingData)
  \/ \E t \in 1..MaxInFlight : TaskFind(t)
  \/ \E t \in 1..MaxInFlight : TaskSave(t)
  \/ \E req \in 1..MaxInFlight : Respond(req)
  \/ EndRequest

SpecDiscount == Init /\ [][NextDiscount]_vars

WellFormedDiscount(d) == d.validFrom < d.validUntil

\* C9: in every room, any two stored discounts of the same type (each valid
\* from a date before the date it is valid until) have disjoint validity
\* periods; discounts of different types may overlap.
C9_DiscountsDisjointPerType ==
  \A r \in DOMAIN rooms : \A i, j \in DOMAIN rooms[r].discounts :
     (i # j /\ rooms[r].discounts[i].type = rooms[r].discounts[j].type
            /\ WellFormedDiscount(rooms[r].discounts[i])
            /\ WellFormedDiscount(rooms[r].discounts[j]))
     => ~Overlaps(rooms[r].discounts[i].validFrom, rooms[r].discounts[i].validUntil,
                  rooms[r].discounts[j].validFrom, rooms[r].discounts[j].validUntil)

\* ============================================================ currentPrice
\* roomSchema.virtual('currentPrice'): now is the reference date.
\* this.seasonalPricing.find(...): the position of the first window that holds
\* now, 0 when find returns undefined
CurrentSeasonalPrice_Exclusive(room, now) ==
  LET holding == {i \in DOMAIN room.seasonalPricing :
                     now > room.seasonalPricing[i].startDate /\ now < room.seasonalPricing[i].endDate}
  IN IF holding = {} THEN 0 ELSE CHOOSE i \in holding : \A j \in holding : i <= j

CurrentSeasonalPrice(room, now) ==
  LET holding == {i \in DOMAIN room.seasonalPricing :
                     now >= room.seasonalPricing[i].startDate /\ now <= room.seasonalPricing[i].endDate}
  IN IF holding = {} THEN 0 ELSE CHOOSE i \in holding : \A j \in holding : i <= j

ActiveDiscount_Any(room, now) == IF room.discounts = <<>> THEN 0 ELSE 1

\* this.discounts.find(...): the position of the first discount valid at now
ActiveDiscount(room, now) ==
  LET valid == {i \in DOMAIN room.discounts :
                   now >= room.discounts[i].validFrom /\ now <= room.discounts[i].validUntil}
  IN IF valid = {} THEN 0 ELSE CHOOSE i \in valid : \A j \in valid : i <= j

\* the price before discounts, in hundredths
BasePrice(room, now) ==
  IF CurrentSeasonalPrice(room, now) # 0
  THEN 100 * room.seasonalPricing[CurrentSeasonalPrice(room, now)].price
  ELSE 100 * room.pricePerNight

CurrentPrice_Compounded(room, now) ==
  LET valid == {i \in DOMAIN room.discounts :
                   now >= room.discounts[i].validFrom /\ now <= room.discounts[i].validUntil}
      RECURSIVE Apply(_, _)
      Apply(price, S) == IF S = {} THEN price
                         ELSE LET i == CHOOSE x \in S : TRUE
                              IN Apply((price * (100 - room.discounts[i].percentage)) \div 100, S \ {i})
  IN Apply(BasePrice(room, now), valid)

\* currentPrice * (1 - activeDiscount.percentage / 100); the value is kept in
\* hundredths so that the percentage stays in the integers
CurrentPrice(room, now) ==
  IF ActiveDiscount(room, now) # 0
  THEN (BasePrice(room, now) \div 100) * (100 - room.discounts[ActiveDiscount(room, now)].percentage)
  ELSE BasePrice(room, now)

\* the stored windows and discounts the price is read over
PricedWindows == {w \in [startDate : Dates, endDate : Dates, price : {200, 250}] :
                     w.startDate < w.endDate}
PricedDiscounts ==
  {d \in [type : DiscountInputTypes, percentage : {20, 50}, validFrom : Dates, validUntil : Dates] :
      /\ d.validFrom < d.validUntil
      /\ (d.type = "special") = (d.percentage = 20)}

InitPrice ==
  /\ \E n \in 0..MaxPriced :
       \E sp \in [1..n -> PricedWindows], di \in SeqsUpTo(PricedDiscounts, MaxPriced - n) :
          rooms = [InitRooms EXCEPT !["r1"].seasonalPricing = sp, !["r1"].discounts = di]
  /\ bookings = <<>>
  /\ tasks = <<>>
  /\ resp = NoResp
  /\ probe = NoProbe
  /\ users = <<>>
  /\ registers = <<>>

\* room.currentPrice read at the date now
ReadCurrentPrice(roomId, now) ==
  /\ probe' = [site |-> "currentPrice", room |-> roomId, now |-> now,
               currentPrice |-> CurrentPrice(rooms[roomId], now)]
  /\ UNCHANGED <<rooms, bookings, tasks, resp, users, registers>>

NextPrice == \E roomId \in RoomIds, now \in Dates : ReadCurrentPrice(roomId, now)

SpecPrice == InitPrice /\ [][NextPrice]_vars

Holds(start, end, now) == start <= now /\ now <= end
WindowsAt(room, now) ==
  {i \in DOMAIN room.seasonalPricing :
      Holds(room.seasonalPricing[i].startDate, room.seasonalPricing[i].endDate, now)}
DiscountsAt(room, now) ==
  {i \in DOMAIN room.discounts :
      Holds(room.discounts[i].validFrom, room.discounts[i].validUntil, now)}
First(S) == CHOOSE i \in S : \A j \in S : i <= j

\* C11: read at a date that no seasonal window and no discount of the room
\* holds, currentPrice is the room's pricePerNight.
C11_NothingActive ==
  probe.site = "currentPrice" =>
    LET room == rooms[probe.room] IN
    (WindowsAt(room, probe.now) = {} /\ DiscountsAt(room, probe.now) = {})
      => probe.currentPrice = 100 * room.pricePerNight

\* a room that stores a window and a discount, read at a date outside both
C11_Witness ==
  /\ probe.site = "currentPrice"
  /\ rooms[probe.room].seasonalPricing # <<>> /\ rooms[probe.room].discounts # <<>>
  /\ WindowsAt(rooms[probe.room], probe.now) = {}
  /\ DiscountsAt(rooms[probe.room], probe.now) = {}
  /\ probe.currentPrice = 100 * rooms[probe.room].pricePerNight

\* C12: read at a date held by a seasonal window (its two end dates included)
\* and by no discount, currentPrice is the window's price, not pricePerNight;
\* of several windows holding the date the first in the list gives the price.
C12_SeasonalWindow ==
  probe.site = "currentPrice" =>
    LET room == rooms[probe.room] IN
    (WindowsAt(room, probe.now) # {} /\ DiscountsAt(room, probe.now) = {})
      => probe.currentPrice = 100 * room.seasonalPricing[First(WindowsAt(room, probe.now))].price

\* the date is the last day of the only window holding it: 200 instead of 100
C12_Witness ==
  /\ probe.site = "currentPrice"
  /\ DiscountsAt(rooms[probe.room], probe.now) = {}
  /\ \E i \in DOMAIN rooms[probe.room].seasonalPricing :
        /\ WindowsAt(rooms[probe.room], probe.now) = {i}
        /\ rooms[probe.room].seasonalPricing[i].endDate = probe.now
        /\ rooms[probe.room].seasonalPricing[i].price = 200
  /\ rooms[probe.room].pricePerNight = 100
  /\ probe.currentPrice = 100 * 200

\* C13: read at a date at which one or more discounts are valid, currentPrice
\* is base * (1 - p/100), base being the price of the first window holding the
\* date or else pricePerNight, and p the percentage of the first valid discount
\* of the list; further valid discounts change nothing.
C13_OneDiscount ==
  probe.site = "currentPrice" =>
    LET room == rooms[probe.room]
        base == IF WindowsAt(room, probe.now) # {}
                THEN room.seasonalPricing[First(WindowsAt(room, probe.now))].price
                ELSE room.pricePerNight
    IN DiscountsAt(room, probe.now) # {}
         => probe.currentPrice = base * (100 - room.discounts[First(DiscountsAt(room, probe.now))].percentage)

\* seasonal 200, a 20% discount first and a discount of another type also
\* valid: 160
C13_Witness ==
  /\ probe.site = "currentPrice"
  /\ \E i, j \in DiscountsAt(rooms[probe.room], probe.now) :
        /\ i < j /\ i = First(DiscountsAt(rooms[probe.room], probe.now))
        /\ rooms[probe.room].discounts[i].percentage = 20
        /\ rooms[probe.room].discounts[j].type # rooms[probe.room].discounts[i].type
  /\ \E w \in WindowsAt(rooms[probe.room], probe.now) : rooms[probe.room].seasonalPricing[w].price = 200
  /\ probe.currentPrice = 100 * 160

\* ======================================================== room statistics
\* roomSchema.type of the two rooms
RoomType == [r1 |-> "standard", r2 |-> "deluxe"]

\* the values of JavaScript arithmetic the statistics can take: a number as
\* the fraction num/den (den > 0), NaN, the two infinities, and undefined
JsNum(n) == [kind |-> "number", num |-> n, den |-> 1]
NaN == [kind |-> "NaN", num |-> 0, den |-> 0]
Infinity == [kind |-> "Infinity", num |-> 1, den |-> 0]
NegInfinity == [kind |-> "Infinity", num |-> -1, den |-> 0]
Undefined == [kind |-> "undefined", num |-> 0, den |-> 0]

\* a + b
JsAdd(a, b) ==
  IF a.kind = "number" /\ b.kind = "number" /\ a.den = 1 /\ b.den = 1
  THEN JsNum(a.num + b.num)
  ELSE NaN

\* (a / b) * 100 for integers a and b, with no test of b
Rate(a, b) ==
  IF b = 0 THEN (IF a = 0 THEN NaN ELSE IF a > 0 THEN Infinity ELSE NegInfinity)
  ELSE IF b > 0 THEN [kind |-> "number", num |-> 100 * a, den |-> b]
  ELSE [kind |-> "number", num |-> -100 * a, den |-> -b]

\* booking.totalAmount: bookingSchema has no such path
TotalAmount(booking) ==
  IF "totalAmount" \in DOMAIN booking THEN JsNum(booking.totalAmount) ELSE Undefined

\* bookings.forEach(...) over the bookings S: the sums it accumulates
SumRevenue(S) ==
  LET RECURSIVE Sum(_)
      Sum(T) == IF T = {} THEN JsNum(0)
                ELSE LET i == CHOOSE x \in T : \A y \in T : x >= y
                     IN JsAdd(Sum(T \ {i}), TotalAmount(bookings[i]))
  IN Sum(S)

SumDays(S) ==
  LET RECURSIVE Sum(_)
      Sum(T) == IF T = {} THEN 0
                ELSE LET i == CHOOSE x \in T : TRUE
                     IN NumberOfNights(bookings[i].checkIn, bookings[i].checkOut) + Sum(T \ {i})
  IN Sum(S)

\* Room.countDocuments({type: roomType})
RoomsOfType(roomType) == Cardinality({r \in DOMAIN rooms : RoomType[r] = roomType})

\* getRoomStatistics: GET /statistics?startDate=&endDate=
GetRoomStatistics(startDate, endDate) ==
  LET found == StatisticsBookings(startDate, endDate)
      totalDays == endDate - startDate
      types == {RoomType[bookings[i].room] : i \in found}
      OfType(t) == {i \in found : RoomType[bookings[i].room] = t}
  IN
  /\ Idle
  /\ IF startDate = Absent \/ endDate = Absent
     THEN resp' = [op |-> "getRoomStatistics", code |-> 400]
     ELSE IF startDate = NaD \/ endDate = NaD
     THEN resp' = [op |-> "getRoomStatistics", code |-> 400]
     ELSE IF \E i \in found : bookings[i].room \notin DOMAIN rooms
     THEN \* populate('room') left null: booking.room._id throws
          resp' = [op |-> "getRoomStatistics", code |-> 500]
     ELSE resp' = [op |-> "getRoomStatistics", code |-> 200,
                   start |-> startDate, end |-> endDate, totalDays |-> totalDays,
                   totalBookings |-> Cardinality(found),
                   totalRevenue |-> SumRevenue(found),
                   occupancyRate |-> Rate(SumDays(found), Cardinality(DOMAIN rooms) * totalDays),
                   roomStats |-> [t \in types |->
                      [totalBookings |-> Cardinality(OfType(t)),
                       revenue |-> SumRevenue(OfType(t)),
                       occupiedDays |-> SumDays(OfType(t)),
                       occupancyRate |-> Rate(SumDays(OfType(t)), RoomsOfType(t) * totalDays)]]]
  /\ UNCHANGED <<rooms, bookings, tasks, probe, users, registers>>

\* deleteRoom: Room.findByIdAndDelete(req.params.id)
DeleteRoom(id) ==
  /\ Idle
  /\ IF id \notin DOMAIN rooms
     THEN /\ resp' = [op |-> "deleteRoom", code |-> 404]
          /\ UNCHANGED rooms
     ELSE /\ rooms' = [r \in DOMAIN rooms \ {id} |-> rooms[r]]
          /\ resp' = [op |-> "deleteRoom", code |-> 204]
  /\ UNCHANGED <<bookings, tasks, probe, users, registers>>

NextStats ==
  \/ /\ Len(bookings) < MaxBookings
     /\ \E body \in BookingBodies : CreateBooking("g1", body)
  \/ \E id \in BookingRefs : CancelBooking(id)
  \/ \E id \in RoomRefs : DeleteRoom(id)
  \/ \E startDate \in FilterDates, endDate \in FilterDates : GetRoomStatistics(startDate, endDate)
  \/ EndRequest

SpecStats == Init /\ [][NextStats]_vars

\* C14: statistics over a period in which no booking is counted have
\* totalRevenue 0 and occupancyRate the number 0, also with no room stored or
\* a period of 0 days, and the request is answered 200.
C14_NoDivisionByZero ==
  (/\ resp.op = "getRoomStatistics"
   /\ resp.code # 400
   /\ \A i \in DOMAIN bookings : bookings[i].status = "cancelled")
  => /\ resp.code = 200
     /\ resp.totalRevenue = JsNum(0)
     /\ resp.occupancyRate.kind = "number" /\ resp.occupancyRate.num = 0
     /\ \A t \in DOMAIN resp.roomStats :
          resp.roomStats[t].occupancyRate.kind = "number"

\* C15: over a period start < end, totalBookings is the number of bookings
\* that are not cancelled and whose stay (checkIn < checkOut) meets the period:
\* checkIn <= end and checkOut >= start.
C15_StatisticsSelection ==
  (/\ resp.op = "getRoomStatistics" /\ resp.code = 200
   /\ resp.start < resp.end
   /\ \A i \in DOMAIN bookings : WellFormedStay(bookings[i]))
  => resp.totalBookings =
       Cardinality({i \in DOMAIN bookings :
                      /\ bookings[i].status # "cancelled"
                      /\ Overlaps(bookings[i].checkIn, bookings[i].checkOut, resp.start, resp.end)})

\* the stored totalPrice summed over the bookings S
SumTotalPrice(S) ==
  LET RECURSIVE Sum(_)
      Sum(T) == IF T = {} THEN 0
                ELSE LET i == CHOOSE x \in T : TRUE
                     IN bookings[i].totalPrice + Sum(T \ {i})
  IN Sum(S)

\* C16: totalRevenue is the sum of the stored totalPrice of the bookings the
\* statistics count (stays with checkIn < checkOut), each type's revenue is
\* that sum over the counted bookings of rooms of the type, and the types'
\* revenues add up to totalRevenue.
C16_StatisticsRevenue ==
  (/\ resp.op = "getRoomStatistics" /\ resp.code = 200
   /\ \A i \in DOMAIN bookings : WellFormedStay(bookings[i]))
  => LET counted == StatisticsBookings(resp.start, resp.end) IN
     /\ resp.totalRevenue = JsNum(SumTotalPrice(counted))
     /\ \A t \in DOMAIN resp.roomStats :
          resp.roomStats[t].revenue =
            JsNum(SumTotalPrice({i \in counted : RoomType[bookings[i].room] = t}))

\* ===================================================== bulk maintenance, status
\* scheduleBulkMaintenance: body = {rooms, maintenanceData}
ScheduleBulkMaintenance(roomIds, maintenanceData) ==
  /\ Idle
  /\ IF roomIds = <<>>
     THEN /\ resp' = [op |-> "scheduleBulkMaintenance", code |-> 200,
                      success |-> <<>>, failed |-> <<>>]
          /\ UNCHANGED tasks
     ELSE /\ tasks' = Spawn("scheduleBulkMaintenance", roomIds, maintenanceData)
          /\ UNCHANGED resp
  /\ UNCHANGED <<rooms, bookings, probe, users, registers>>

\* updateBulkStatus: body = {rooms, status}
UpdateBulkStatus(roomIds, status) ==
  /\ Idle
  /\ IF roomIds = <<>>
     THEN /\ resp' = [op |-> "updateBulkStatus", code |-> 200,
                      success |-> <<>>, failed |-> <<>>]
          /\ UNCHANGED tasks
     ELSE /\ tasks' = Spawn("updateBulkStatus", roomIds, [status |-> status])
          /\ UNCHANGED resp
  /\ UNCHANGED <<rooms, bookings, probe, users, registers>>

\* updateMaintenance: PATCH /:roomId/maintenance/:maintenanceId;
\* body = {startDate, endDate, status}, each optional, copied key by key
UpdateMaintenance(roomId, maintenanceId, updateData) ==
  /\ Idle
  /\ IF roomId \notin DOMAIN rooms
     THEN /\ resp' = [op |-> "updateMaintenance", code |-> 404]
          /\ UNCHANGED rooms
     ELSE IF maintenanceId \notin DOMAIN rooms[roomId].maintenanceHistory
     THEN /\ resp' = [op |-> "updateMaintenance", code |-> 404]
          /\ UNCHANGED rooms
     ELSE IF updateData.startDate = NaD \/ updateData.endDate = NaD
     THEN \* room.save() rejects the Invalid Date
          /\ resp' = [op |-> "updateMaintenance", code |-> 500]
          /\ UNCHANGED rooms
     ELSE LET old == rooms[roomId].maintenanceHistory[maintenanceId] IN
          /\ rooms' = [rooms EXCEPT
               ![roomId].maintenanceHistory[maintenanceId] =
                   [type |-> old.type,
                    startDate |-> Patched(old.startDate, updateData.startDate),
                    endDate |-> Patched(old.endDate, updateData.endDate),
                    status |-> IF updateData.status = "absent" THEN old.status
                               ELSE updateData.status],
               ![roomId].status = IF updateData.status = "completed" THEN "available"
                                  ELSE IF updateData.status = "in-progress" THEN "maintenance"
                                  ELSE @]
          /\ resp' = [op |-> "updateMaintenance", code |-> 200]
  /\ UNCHANGED <<bookings, tasks, probe, users, registers>>

BulkMaintenanceData ==
  [type : {"repair", "absent"}, startDate : DateInputs, endDate : DateInputs,
   status : {"absent", "in-progress"}]
MaintenanceUpdates ==
  [startDate : FilterDates, endDate : FilterDates, status : {"absent", "completed", "in-progress"}]
BulkStatusInputs == {"maintenance", "out-of-order", "bogus"}

\* ------------------------------------------- every handler that stores an interval
\* the bookings, maintenance records and pricing entries stored, and the items
\* in flight that may store one more
TotalDocs == Len(bookings) + TotalMaintenance + TotalEntries + Len(tasks)

OneRoom == {<<r>> : r \in RoomRefs}
BulkWindow == [pricePerNight : {Absent}, seasonalPricing : Some(SeasonalInputs), discounts : {NoEntry}]

NextIntervals ==
  \/ \E body \in BookingBodies : TotalDocs < MaxDocs /\ CreateBooking("g1", body)
  \/ \E roomId \in RoomRefs, body \in MaintenanceBodies :
        TotalDocs < MaxDocs /\ ManageRoomMaintenance(roomId, body)
  \/ \E roomIds \in OneRoom, maintenanceData \in BulkMaintenanceData :
        TotalDocs < MaxDocs /\ ScheduleBulkMaintenance(roomIds, maintenanceData)
  \/ \E roomIds \in OneRoom, pricingData \in SeasonalInputs :
        TotalDocs < MaxDocs /\ AddSeasonalPricing(roomIds, pricingData)
  \/ \E roomIds \in OneRoom, pricingData \in BulkWindow :
        TotalDocs < MaxDocs /\ UpdateBulkPricing(roomIds, pricingData)
  \/ \E roomIds \in OneRoom, discountData \in DiscountInputs :
        TotalDocs < MaxDocs /\ AddDiscount(roomIds, discountData)
  \/ \E id \in 1..(MaxDocs + 1), body \in UpdateBodies :
        tasks = <<>> /\ UpdateBooking(id, body)
  \/ \E roomId \in RoomRefs, id \in 1..(MaxDocs + 1), updateData \in MaintenanceUpdates :
        tasks = <<>> /\ UpdateMaintenance(roomId, id, updateData)
  \/ \E id \in 1..(MaxDocs + 1), roomId \in RoomRefs, updateData \in SeasonalUpdates :
        tasks = <<>> /\ UpdateSeasonalPricing(id, roomId, updateData)
  \/ \E id \in 1..(MaxDocs + 1), roomId \in RoomRefs, updateData \in DiscountUpdates :
        tasks = <<>> /\ UpdateDiscount(id, roomId, updateData)
  \/ \E t \in 1..MaxDocs : TaskFind(t)
  \/ \E t \in 1..MaxDocs : TaskCheck(t)
  \/ \E t \in 1..MaxDocs : TaskSave(t)
  \/ \E req \in 1..MaxDocs : Respond(req)
  \/ EndRequest

SpecIntervals == Init /\ [][NextIntervals]_vars

\* C17: every stored interval has its start before its end: the stay of every
\* booking, the window of every maintenance record, every seasonal window and
\* the validity of every discount.
C17_WellFormedIntervals ==
  /\ \A i \in DOMAIN bookings : bookings[i].checkIn < bookings[i].checkOut
  /\ \A r \in DOMAIN rooms :
       /\ \A i \in DOMAIN rooms[r].maintenanceHistory :
            rooms[r].maintenanceHistory[i].startDate < rooms[r].maintenanceHistory[i].endDate
       /\ \A i \in DOMAIN rooms[r].seasonalPricing :
            rooms[r].seasonalPricing[i].startDate < rooms[r].seasonalPricing[i].endDate
       /\ \A i \in DOMAIN rooms[r].discounts :
            rooms[r].discounts[i].validFrom < rooms[r].discounts[i].validUntil

\* --------------------------------------------------- the six bulk handlers
BulkWindows == {[startDate |-> 0, endDate |-> 1, price |-> 200]}
BulkDiscountData == {[type |-> "special", percentage |-> 20, validFrom |-> 0, validUntil |-> 1]}
BulkPricingData == [pricePerNight : {Absent}, seasonalPricing : Some(BulkWindows), discounts : {NoEntry}]
BulkMaintenance == [type : {"repair", "absent"}, startDate : {0}, endDate : {1}, status : {"in-progress"}]
BulkRoomUpdates == [roomId : RoomRefs, seasonalPricing : Some({<<>>}) \cup {NoEntry}]

\* a booking of r1 is stored when the bulk requests arrive
InitBulk ==
  /\ rooms = InitRooms
  /\ bookings = <<[room |-> "r1", guest |-> "g1", checkIn |-> 0, checkOut |-> 1,
                   status |-> "pending", paymentStatus |-> "pending",
                   totalPrice |-> 100, addOns |-> <<>>]>>
  /\ tasks = <<>>
  /\ resp = NoResp
  /\ probe = NoProbe
  /\ users = <<>>
  /\ registers = <<>>

\* one bulk request of up to MaxTasks items
BulkRoomFor(n) ==
  /\ tasks = <<>>
  /\ n <= MaxTasks
  /\ TotalEntries + TotalMaintenance + Len(tasks) + n <= MaxEntries

NextBulk ==
  \/ \E roomIds \in SeqsUpTo(RoomRefs, MaxTasks), maintenanceData \in BulkMaintenance :
        BulkRoomFor(Len(roomIds)) /\ ScheduleBulkMaintenance(roomIds, maintenanceData)
  \/ \E roomIds \in SeqsUpTo(RoomRefs, MaxTasks), pricingData \in BulkWindows :
        BulkRoomFor(Len(roomIds)) /\ AddSeasonalPricing(roomIds, pricingData)
  \/ \E roomIds \in SeqsUpTo(RoomRefs, MaxTasks), discountData \in BulkDiscountData :
        BulkRoomFor(Len(roomIds)) /\ AddDiscount(roomIds, discountData)
  \/ \E roomIds \in SeqsUpTo(RoomRefs, MaxTasks), pricingData \in BulkPricingData :
        BulkRoomFor(Len(roomIds)) /\ UpdateBulkPricing(roomIds, pricingData)
  \/ \E roomIds \in SeqsUpTo(RoomRefs, MaxTasks), status \in BulkStatusInputs :
        BulkRoomFor(Len(roomIds)) /\ UpdateBulkStatus(roomIds, status)
  \/ \E updates \in SeqsUpTo(BulkRoomUpdates, MaxTasks) :
        BulkRoomFor(Len(updates)) /\ BulkUpdateRooms(updates)
  \/ \E t \in 1..MaxTasks : TaskFind(t)
  \/ \E t \in 1..MaxTasks : TaskCheck(t)
  \/ \E t \in 1..MaxTasks : TaskSave(t)
  \/ \E req \in 1..MaxTasks : Respond(req)
  \/ EndRequest

SpecBulk == InitBulk /\ [][NextBulk]_vars

\* the update of item T is in place in the room new, which was old before
ItemApplied(T, old, new) ==
  CASE T.op = "addSeasonalPricing" -> new.seasonalPricing = Append(old.seasonalPricing, T.data)
    [] T.op = "addDiscount" -> new.discounts = Append(old.discounts, T.data)
    [] T.op = "updateBulkPricing" ->
         new.seasonalPricing = old.seasonalPricing \o T.data.seasonalPricing
    [] T.op = "bulkUpdateRooms" ->
         T.data.seasonalPricing # <<>> => new.seasonalPricing = T.data.seasonalPricing[1]
    [] T.op = "scheduleBulkMaintenance" ->
         /\ Len(new.maintenanceHistory) = Len(old.maintenanceHistory) + 1
         /\ new.maintenanceHistory[Len(new.maintenanceHistory)].startDate = T.data.startDate
         /\ new.maintenanceHistory[Len(new.maintenanceHistory)].endDate = T.data.endDate
    [] T.op = "updateBulkStatus" ->
         new.status = T.data.status \/ (T.doc.status = T.data.status /\ new.status = old.status)

\* C18: in every interleaving of the items of the six bulk handlers, a step of
\* one item leaves every other item and every other room as they were; an item
\* that ends in failed has changed no room, an item that ends in success has
\* its update in place in its own room, and no room changes except by an item
\* that ends in success.  The response lists every item of the request once,
\* in success or in failed according to how it ended.
C18_BulkItemsIndependent ==
  [][/\ \A t \in DOMAIN tasks :
          (tasks[t].pc \in {"check", "save"} /\ (TaskCheck(t) \/ TaskSave(t))) =>
            /\ \A u \in DOMAIN tasks : u # t => tasks'[u] = tasks[u]
            /\ \A r \in DOMAIN rooms : r # tasks[t].roomId => rooms'[r] = rooms[r]
            /\ tasks'[t].outcome = "failed" => rooms' = rooms
            /\ tasks'[t].outcome = "success" =>
                 /\ tasks[t].roomId \in DOMAIN rooms
                 /\ ItemApplied(tasks[t], rooms[tasks[t].roomId], rooms'[tasks[t].roomId])
            /\ rooms' # rooms => tasks'[t].outcome = "success"
            /\ (tasks'[t].pc = "done") = (tasks'[t].outcome \in {"success", "failed"})
     /\ \A req \in 1..Len(tasks) :
          (TasksOf(req) # <<>> /\ Respond(req)) =>
            /\ rooms' = rooms
            /\ \A T \in {TasksOf(req)[k] : k \in DOMAIN TasksOf(req)} :
                  T.outcome \in {"success", "failed"}
            /\ Len(resp'.success) + Len(resp'.failed) = Len(TasksOf(req))
            /\ \A r \in RoomRefs :
                 /\ Cardinality({k \in DOMAIN resp'.success : resp'.success[k] = r})
                      = Cardinality({k \in DOMAIN tasks : tasks[k].req = req /\ tasks[k].roomId = r
                                                           /\ tasks[k].outcome = "success"})
                 /\ Cardinality({k \in DOMAIN resp'.failed : resp'.failed[k] = r})
                      = Cardinality({k \in DOMAIN tasks : tasks[k].req = req /\ tasks[k].roomId = r
                                                           /\ tasks[k].outcome = "failed"})
    ]_vars

\* scheduleBulkMaintenance for r1 and r2: r1 is refused for its booking, r2 is
\* under maintenance all the same
C18_Witness ==
  /\ resp.op = "scheduleBulkMaintenance"
  /\ resp.failed = <<"r1">> /\ resp.success = <<"r2">>
  /\ rooms["r1"].maintenanceHistory = <<>>
  /\ rooms["r2"].maintenanceHistory # <<>>
  /\ rooms["r2"].status = "maintenance"

\* ------------------------------------------------------ deleting documents
\* deleteBooking: Booking.findByIdAndDelete(req.params.id); a booking is
\* addressed by its place in the collection
DeleteBooking(id) ==
  /\ Idle
  /\ IF id \notin DOMAIN bookings
     THEN /\ resp' = [op |-> "deleteBooking", code |-> 404]
          /\ UNCHANGED bookings
     ELSE /\ bookings' = Splice(bookings, id)
          /\ resp' = [op |-> "deleteBooking", code |-> 204]
  /\ UNCHANGED <<rooms, tasks, probe, users, registers>>

NextDelete ==
  \/ /\ Len(bookings) < MaxBookings
     /\ \E body \in BookingBodies : CreateBooking("g1", body)
  \/ \E id \in RoomRefs : DeleteRoom(id)
  \/ \E id \in BookingRefs : DeleteBooking(id)
  \/ EndRequest

SpecDelete == Init /\ [][NextDelete]_vars

\* C19: after any sequence of createBooking, deleteRoom and deleteBooking
\* requests, every stored booking's room is a stored room.
C19_ReferentialIntegrity ==
  \A i \in DOMAIN bookings : bookings[i].room \in DOMAIN rooms

\* ------------------------------------------------------------ registration
\* the request bodies the model draws
RegisterBodies == [firstName : {"John", "Jane"}, email : {"john@example.com", "jane@example.com"}]

\* POST /api/auth/register: the handler starts; it runs to its first await
Register(body) ==
  /\ registers' = Append(registers, [body |-> body, pc |-> "findOne", code |-> 0])
  /\ UNCHANGED <<rooms, bookings, tasks, resp, probe, users>>

\* User.findOne({email})
UserFindOne(email) == \E i \in DOMAIN users : users[i].email = email

\* const existingUser = await User.findOne({ email });
\* if (existingUser) return next(new AppError('Email already registered', 400));
RegisterFindOne(t) ==
  /\ t \in DOMAIN registers
  /\ registers[t].pc = "findOne"
  /\ registers' = [registers EXCEPT ![t] =
        IF UserFindOne(@.body.email) THEN [@ EXCEPT !.pc = "done", !.code = 400]
                                     ELSE [@ EXCEPT !.pc = "create"]]
  /\ UNCHANGED <<rooms, bookings, tasks, resp, probe, users>>

\* the ways User.create can end for a document whose email is stored already:
\* the collection takes it, or a unique index on email refuses it
CreateOutcomes(doc) == IF UserFindOne(doc.email) THEN {"stored", "duplicate key"} ELSE {"stored"}

\* const newUser = await User.create({...}); createSendToken(newUser, 201, res);
\* catch (error) { next(new AppError('Error registering user', 500)) }
RegisterCreate(t) ==
  /\ t \in DOMAIN registers
  /\ registers[t].pc = "create"
  /\ \E outcome \in CreateOutcomes(registers[t].body) :
       IF outcome = "stored"
       THEN /\ users' = Append(users, registers[t].body)
            /\ registers' = [registers EXCEPT ![t].pc = "done", ![t].code = 201]
       ELSE /\ users' = users
            /\ registers' = [registers EXCEPT ![t].pc = "done", ![t].code = 500]
  /\ UNCHANGED <<rooms, bookings, tasks, resp, probe>>

NextRegister ==
  \/ /\ Len(registers) < MaxTasks
     /\ \E body \in RegisterBodies : Register(body)
  \/ \E t \in 1..MaxTasks : RegisterFindOne(t)
  \/ \E t \in 1..MaxTasks : RegisterCreate(t)

SpecRegister == Init /\ [][NextRegister]_vars

\* C20: after any interleaving of register requests no two stored users share
\* an email, and every request that was answered either stored its user (201)
\* or was rejected with 400.
C20_UniqueEmail ==
  /\ \A i, j \in DOMAIN users : i # j => users[i].email # users[j].email
  /\ \A t \in DOMAIN registers : registers[t].pc = "done" => registers[t].code \in {201, 400}

\* -------------------------------------------------------------------- login
\* register bodies with the fields login and the route guards read
UserBodies == [firstName : {"John"}, email : {"john@example.com", "jane@example.com"},
               password : {"password123", "password456"}, role : {"admin", "guest"}]

\* a body field that was not sent
Missing == ""
LoginBodies == [email : {"john@example.com", "jane@example.com", Missing},
                password : {"password123", "password456", "wrongpassword", Missing}]

\* user.comparePassword(candidate): the candidate is the password the user
\* registered with
ComparePassword(user, candidate) == candidate = user.password

\* User.findOne({email}): the first stored user with the email, or none
FoundUsers(email) == {i \in DOMAIN users : users[i].email = email}
FirstUser(email) == CHOOSE i \in FoundUsers(email) : \A j \in FoundUsers(email) : i <= j

\* signToken(user._id): the token carries the user's id
SignToken(id) == [id |-> id]
NoToken == [id |-> 0]

\* login; createSendToken blanks the password of the document in memory only
Login(body) ==
  /\ Idle
  /\ resp' =
       IF body.email = Missing \/ body.password = Missing
       THEN [op |-> "login", code |-> 400, token |-> NoToken, body |-> body]
       ELSE IF FoundUsers(body.email) = {}
               \/ ~ComparePassword(users[FirstUser(body.email)], body.password)
       THEN [op |-> "login", code |-> 401, token |-> NoToken, body |-> body]
       ELSE [op |-> "login", code |-> 200, token |-> SignToken(FirstUser(body.email)), body |-> body]
  /\ UNCHANGED <<rooms, bookings, tasks, probe, users, registers>>

NextLogin ==
  \/ /\ Len(registers) < MaxTasks
     /\ \E body \in UserBodies : Register(body)
  \/ \E t \in 1..MaxTasks : RegisterFindOne(t)
  \/ \E t \in 1..MaxTasks : RegisterCreate(t)
  \/ \E body \in LoginBodies : Login(body)
  \/ EndRequest

SpecLogin == Init /\ [][NextLogin]_vars

\* C21: login answers 400 without a token when email or password is missing;
\* otherwise it answers 200 with a token exactly when some stored user has
\* the email and the password given, and 401 without a token when none has;
\* the stored users are the same after as before.
C21_LoginOutcome ==
  [][\A body \in LoginBodies :
        (Idle /\ Login(body)) =>
          /\ users' = users
          /\ IF body.email = Missing \/ body.password = Missing
             THEN resp'.code = 400 /\ resp'.token = NoToken
             ELSE IF \E i \in DOMAIN users : /\ users[i].email = body.email
                                             /\ ComparePassword(users[i], body.password)
             THEN resp'.code = 200 /\ resp'.token # NoToken
             ELSE resp'.code = 401 /\ resp'.token = NoToken
    ]_vars

\* ------------------------------------------------------------- room router
ALL_ROLES == {"guest", "staff", "manager", "admin"}
STAFF_ROLES == {"staff", "manager", "admin"}
MANAGEMENT_ROLES == {"manager", "admin"}

\* a route of the router: router.METHOD(path, [restrictTo(...roles)], handler)
Route(method, path, roles, handler) ==
  [method |-> method, path |-> path, roles |-> roles, handler |-> handler]
\* router.use(middleware)
Use(middleware, roles) == [method |-> "USE", path |-> <<>>, roles |-> roles, handler |-> middleware]

\* the path segments that are parameters
Params == {":id", ":roomId", ":maintenanceId"}

\* a route with no restrictTo before its handler
NoRestriction == {}

\* routes/room.routes.js, in the order the layers are registered
RoomRoutes ==
  << Route("GET", <<>>, NoRestriction, "getAllRooms"),
     Route("GET", <<":id">>, NoRestriction, "getRoomById"),
     Route("GET", <<":id", "availability">>, NoRestriction, "checkRoomAvailability"),
     Use("protect", NoRestriction),
     Route("GET", <<":id", "ratings">>, NoRestriction, "getRoomRatings"),
     Route("POST", <<":id", "ratings">>, NoRestriction, "addRoomRating"),
     Route("GET", <<"statistics">>, STAFF_ROLES, "getRoomStatistics"),
     Route("GET", <<"statistics", "occupancy">>, STAFF_ROLES, "getRoomOccupancyStats"),
     Route("GET", <<"statistics", "revenue">>, MANAGEMENT_ROLES, "getRoomRevenueStats"),
     Route("GET", <<"maintenance", "scheduled">>, STAFF_ROLES, "getScheduledMaintenance"),
     Route("POST", <<":roomId", "maintenance">>, STAFF_ROLES, "manageRoomMaintenance"),
     Route("PATCH", <<":roomId", "maintenance", ":maintenanceId">>, STAFF_ROLES, "updateMaintenance"),
     Route("GET", <<":roomId", "maintenance", "history">>, STAFF_ROLES, "getMaintenanceHistory"),
     Route("GET", <<"pricing", "seasonal">>, MANAGEMENT_ROLES, "getSeasonalPricing"),
     Route("POST", <<"pricing", "seasonal">>, MANAGEMENT_ROLES, "addSeasonalPricing"),
     Route("PATCH", <<"pricing", "seasonal", ":id">>, MANAGEMENT_ROLES, "updateSeasonalPricing"),
     Route("DELETE", <<"pricing", "seasonal", ":id">>, MANAGEMENT_ROLES, "deleteSeasonalPricing"),
     Route("GET", <<"pricing", "discounts">>, MANAGEMENT_ROLES, "getDiscounts"),
     Route("POST", <<"pricing", "discounts">>, MANAGEMENT_ROLES, "addDiscount"),
     Route("PATCH", <<"pricing", "discounts", ":id">>, MANAGEMENT_ROLES, "updateDiscount"),
     Route("DELETE", <<"pricing", "discounts", ":id">>, MANAGEMENT_ROLES, "deleteDiscount"),
     Use("restrictTo", {"admin"}),
     Route("POST", <<"create">>, NoRestriction, "createRoom"),
     Route("PATCH", <<"update", ":id">>, NoRestriction, "updateRoom"),
     Route("DELETE", <<"delete", ":id">>, NoRestriction, "deleteRoom"),
     Route("POST", <<"bulk-update">>, NoRestriction, "bulkUpdateRooms"),
     Route("POST", <<"bulk-maintenance">>, NoRestriction, "scheduleBulkMaintenance"),
     Route("POST", <<"bulk-pricing">>, NoRestriction, "updateBulkPricing"),
     Route("POST", <<"bulk-status">>, NoRestriction, "updateBulkStatus") >>

\* a route's path matches the request's: a parameter takes any one segment
Match(pattern, path) ==
  /\ Len(pattern) = Len(path)
  /\ \A k \in DOMAIN pattern : pattern[k] \in Params \/ pattern[k] = path[k]

\* a user that was deleted leaves its place in the collection empty
DeletedUser == [firstName |-> Missing, email |-> Missing, password |-> Missing, role |-> "none"]

\* a token jwt.verify refuses
BadToken == [id |-> -1]
NoUser == 0

\* User.findById(id)
UserFindById(id) == IF id \in DOMAIN users /\ users[id] # DeletedUser THEN id ELSE NoUser

\* protect: the user of the request, or none (401)
Protect(token) ==
  IF token = NoToken THEN NoUser
  ELSE IF token = BadToken THEN NoUser
  ELSE UserFindById(token.id)

\* restrictTo with the role test left out
RestrictTo_Any(roles, user) == TRUE

\* restrictTo(...roles): roles.includes(req.user.role)
RestrictTo(roles, user) == users[user].role \in roles

NotRouted(code) == [handler |-> "none", code |-> code, user |-> NoUser]

\* the layers from the k-th on, for a request that has come that far with
\* req.user = user
RECURSIVE Walk(_, _, _, _)
Walk(layers, req, k, user) ==
  IF k > Len(layers) THEN NotRouted(404)
  ELSE LET layer == layers[k] IN
    IF layer.method = "USE"
    THEN IF layer.handler = "protect"
         THEN IF Protect(req.token) = NoUser THEN NotRouted(401)
              ELSE Walk(layers, req, k + 1, Protect(req.token))
         ELSE IF ~RestrictTo(layer.roles, user) THEN NotRouted(403)
              ELSE Walk(layers, req, k + 1, user)
    ELSE IF layer.method = req.method /\ Match(layer.path, req.path)
    THEN IF layer.roles # NoRestriction /\ ~RestrictTo(layer.roles, user)
         THEN NotRouted(403)
         ELSE [handler |-> layer.handler, code |-> 0, user |-> user]
    ELSE Walk(layers, req, k + 1, user)

\* the handler the room router gives the request to
RoomRouter(req) == Walk(RoomRoutes, req, 1, NoUser)

\* createRoom: Room.create(req.body); the new room takes an id no stored room has
RoomBodies == [pricePerNight : {100, Absent}]

CreateRoom(body) ==
  /\ Idle
  /\ \E id \in RoomIds \ DOMAIN rooms :
       IF body.pricePerNight = Absent
       THEN \* validation: Price per night is required
            /\ resp' = [op |-> "createRoom", code |-> 500]
            /\ UNCHANGED rooms
       ELSE /\ rooms' = [r \in DOMAIN rooms \cup {id} |->
                           IF r = id THEN NewRoom(body.pricePerNight) ELSE rooms[r]]
            /\ resp' = [op |-> "createRoom", code |-> 201]
  /\ UNCHANGED <<bookings, tasks, probe, users, registers>>

\* DELETE /api/users/:id
DeleteUser(id) ==
  /\ id \in DOMAIN users
  /\ users[id] # DeletedUser
  /\ users' = [users EXCEPT ![id] = DeletedUser]
  /\ UNCHANGED <<rooms, bookings, tasks, resp, probe, registers>>

\* the requests to the admin routes the model draws
Tokens == {NoToken, BadToken} \cup {SignToken(i) : i \in 1..MaxTasks}
AdminPaths ==
  { [method |-> "POST", path |-> <<"create">>],
    [method |-> "PATCH", path |-> <<"update", "r1">>],
    [method |-> "DELETE", path |-> <<"delete", "r1">>],
    [method |-> "POST", path |-> <<"bulk-update">>],
    [method |-> "POST", path |-> <<"bulk-maintenance">>],
    [method |-> "POST", path |-> <<"bulk-pricing">>],
    [method |-> "POST", path |-> <<"bulk-status">>] }
AdminRequests == {[method |-> p.method, path |-> p.path, token |-> t] : p \in AdminPaths, t \in Tokens}
AdminHandlers == {"createRoom", "updateRoom", "deleteRoom", "bulkUpdateRooms",
                  "scheduleBulkMaintenance", "updateBulkPricing", "updateBulkStatus"}

\* the handler runs with the request's parameters and a body
Invoke(handler, req) ==
  CASE handler = "createRoom" -> \E body \in RoomBodies : CreateRoom(body)
    [] handler = "updateRoom" ->
         \E w \in BulkWindows : UpdateRoom(req.path[2], [seasonalPricing |-> << <<w>> >>])
    [] handler = "deleteRoom" -> DeleteRoom(req.path[2])
    [] handler = "bulkUpdateRooms" ->
         BulkRoomFor(1) /\ BulkUpdateRooms(<<[roomId |-> "r1", seasonalPricing |-> <<<<>>>>]>>)
    [] handler = "scheduleBulkMaintenance" ->
         /\ BulkRoomFor(1)
         /\ ScheduleBulkMaintenance(<<"r1">>, [type |-> "repair", startDate |-> 0,
                                               endDate |-> 1, status |-> "in-progress"])
    [] handler = "updateBulkPricing" ->
         \E pricingData \in BulkPricingData :
            BulkRoomFor(1) /\ UpdateBulkPricing(<<"r1">>, pricingData)
    [] handler = "updateBulkStatus" ->
         BulkRoomFor(1) /\ UpdateBulkStatus(<<"r1">>, "out-of-order")

\* a request to the room router: the layers up to the handler, then the handler
RoomRequest(req) ==
  IF RoomRouter(req).handler = "none"
  THEN /\ Idle
       /\ resp' = [op |-> "router", code |-> RoomRouter(req).code]
       /\ UNCHANGED <<rooms, bookings, tasks, probe, users, registers>>
  ELSE Invoke(RoomRouter(req).handler, req)

\* an admin and one more user are registered
InitAdmin ==
  /\ rooms = InitRooms
  /\ bookings = <<>>
  /\ tasks = <<>>
  /\ resp = NoResp
  /\ probe = NoProbe
  /\ \E role \in ALL_ROLES \ {"admin"} :
        users = <<[firstName |-> "John", email |-> "john@example.com",
                   password |-> "password123", role |-> "admin"],
                  [firstName |-> "John", email |-> "jane@example.com",
                   password |-> "password456", role |-> role]>>
  /\ registers = <<>>

NextAdmin ==
  \/ \E req \in AdminRequests : RoomRequest(req)
  \/ \E id \in 1..MaxTasks : DeleteUser(id)
  \/ \E t \in 1..MaxTasks : TaskFind(t)
  \/ \E t \in 1..MaxTasks : TaskCheck(t)
  \/ \E t \in 1..MaxTasks : TaskSave(t)
  \/ \E req \in 1..MaxTasks : Respond(req)
  \/ EndRequest

SpecAdmin == InitAdmin /\ [][NextAdmin]_vars

\* the request carries a valid token of a stored user whose role is admin
AdminToken(token) ==
  /\ token \notin {NoToken, BadToken}
  /\ token.id \in DOMAIN users
  /\ users[token.id] # DeletedUser
  /\ users[token.id].role = "admin"

\* C22: a request to one of the seven admin routes that carries no valid token
\* of a stored admin is answered 401 or 403 by the router: no admin handler
\* starts, no item of a bulk handler is created and the rooms stay as they
\* are; a request with an admin's token reaches the handler of its route.
C22_AdminOnly ==
  [][\A req \in AdminRequests :
        (Idle /\ RoomRequest(req)) =>
          IF AdminToken(req.token)
          THEN RoomRouter(req).handler \in AdminHandlers
          ELSE /\ rooms' = rooms
               /\ tasks' = tasks
               /\ resp'.op = "router"
               /\ resp'.code \in {401, 403}
    ]_vars

\* the admin has deleted r1, and the other user's request for r2's routes was
\* refused with 403 after that
C22_Witness ==
  /\ "r1" \notin DOMAIN rooms
  /\ resp = [op |-> "router", code |-> 403]
  /\ users[2] # DeletedUser

\* ------------------------------------------------------------------ ratings
\* req.body.score as sent; Absent when the body has none
ScoreInputs == {Absent, 0, 1, 5, 6}
RatingGuests == {"g1", "g2"}

\* !score || score < 1 || score > 5
InvalidScore(score) == score = Absent \/ score = 0 \/ score < 1 \/ score > 5

\* addRoomRating up to its first await: the score test, then Room.findById
AddRoomRating(id, user, body) ==
  /\ tasks' = Append(tasks,
       IF InvalidScore(body.score)
       THEN [NewTask(FreshReq, "addRoomRating", id, [score |-> body.score, guest |-> user])
               EXCEPT !.pc = "done", !.outcome = "400"]
       ELSE NewTask(FreshReq, "addRoomRating", id, [score |-> body.score, guest |-> user]))
  /\ UNCHANGED <<rooms, bookings, resp, probe, users, registers>>

\* addRoomRating after findById: the test for a rating of the user is made on
\* the document read, and save() pushes the new rating onto the stored array
SaveRating(t) ==
  LET T == tasks[t] IN
  /\ t \in DOMAIN tasks
  /\ T.op = "addRoomRating"
  /\ T.pc = "save"
  /\ IF T.doc = NoDoc \/ T.roomId \notin DOMAIN rooms
     THEN Finish(t, IF T.doc = NoDoc THEN "404" ELSE "500") /\ UNCHANGED rooms
     ELSE IF \E i \in DOMAIN T.doc.ratings : T.doc.ratings[i].guest = T.data.guest
     THEN Finish(t, "400") /\ UNCHANGED rooms
     ELSE /\ rooms' = [rooms EXCEPT ![T.roomId].ratings = Append(@, T.data)]
          /\ Finish(t, "201")
  /\ UNCHANGED <<bookings, resp, probe, users, registers>>

NextRating ==
  \/ /\ Len(tasks) < MaxTasks
     /\ \E id \in RoomRefs, user \in RatingGuests, score \in ScoreInputs :
          AddRoomRating(id, user, [score |-> score])
  \/ \E t \in 1..MaxTasks : TaskFind(t)
  \/ \E t \in 1..MaxTasks : SaveRating(t)

SpecRating == Init /\ [][NextRating]_vars

\* C23: after any interleaving of addRoomRating requests every stored rating
\* has a score from 1 to 5 and no room holds two ratings of one guest.
C23_RatingsValidUnique ==
  \A r \in DOMAIN rooms :
    /\ \A i \in DOMAIN rooms[r].ratings :
          rooms[r].ratings[i].score >= 1 /\ rooms[r].ratings[i].score <= 5
    /\ \A i, j \in DOMAIN rooms[r].ratings :
          i # j => rooms[r].ratings[i].guest # rooms[r].ratings[j].guest

\* --------------------------------------- updates of windows and discounts
NextUpdate ==
  \/ \E roomIds \in OneRoom, pricingData \in SeasonalInputs :
        RoomFor(1, MaxInFlight) /\ AddSeasonalPricing(roomIds, pricingData)
  \/ \E roomIds \in OneRoom, discountData \in DiscountInputs :
        RoomFor(1, MaxInFlight) /\ AddDiscount(roomIds, discountData)
  \/ \E roomIds \in OneRoom, pricingData \in BulkSeasonal \cup BulkDiscounts :
        RoomFor(1, MaxInFlight) /\ UpdateBulkPricing(roomIds, pricingData)
  \/ \E id \in EntryRefs, roomId \in RoomRefs, updateData \in SeasonalUpdates :
        tasks = <<>> /\ UpdateSeasonalPricing(id, roomId, updateData)
  \/ \E id \in EntryRefs, roomId \in RoomRefs, updateData \in DiscountUpdates :
        tasks = <<>> /\ UpdateDiscount(id, roomId, updateData)
  \/ \E t \in 1..MaxInFlight : TaskFind(t)
  \/ \E t \in 1..MaxInFlight : TaskSave(t)
  \/ \E req \in 1..MaxInFlight : Respond(req)
  \/ EndRequest

SpecUpdate == Init /\ [][NextUpdate]_vars

\* the entries of s other than the id-th are the same in s2
OthersKept(s, s2, id) == Len(s2) = Len(s) /\ \A k \in DOMAIN s : k # id => s2[k] = s[k]

\* an update of the dates of a stored window, with the dates it results in
SeasonalUpdateRefused(roomId, id, updateData) ==
  LET sp == rooms[roomId].seasonalPricing
      startDate == Patched(sp[id].startDate, updateData.startDate)
      endDate == Patched(sp[id].endDate, updateData.endDate)
  IN \E j \in DOMAIN sp :
        j # id /\ Overlaps(startDate, endDate, sp[j].startDate, sp[j].endDate)

DiscountUpdateRefused(roomId, id, updateData) ==
  LET di == rooms[roomId].discounts
      validFrom == Patched(di[id].validFrom, updateData.validFrom)
      validUntil == Patched(di[id].validUntil, updateData.validUntil)
      type == IF updateData.type = "absent" THEN di[id].type ELSE updateData.type
  IN \E j \in DOMAIN di :
        /\ j # id
        /\ di[j].type = type
        /\ Overlaps(validFrom, validUntil, di[j].validFrom, di[j].validUntil)

\* an update step tested as the claim words it: 400 with the room unchanged
\* exactly when the resulting interval overlaps another entry of the room (of
\* the resulting type); otherwise 200, the entry holds the resulting values
\* and the other entries are unchanged
UpdateTested ==
  /\ resp'.op = "updateSeasonalPricing" =>
       \A roomId \in RoomIds, id \in EntryRefs, updateData \in SeasonalUpdates :
          ( /\ Idle /\ roomId \in DOMAIN rooms /\ id \in DOMAIN rooms[roomId].seasonalPricing
            /\ (updateData.startDate # Absent \/ updateData.endDate # Absent)
            /\ updateData.startDate # NaD /\ updateData.endDate # NaD
            /\ UpdateSeasonalPricing(id, roomId, updateData) ) =>
          IF SeasonalUpdateRefused(roomId, id, updateData)
          THEN resp'.code = 400 /\ rooms' = rooms
          ELSE /\ resp'.code = 200
               /\ rooms'[roomId].seasonalPricing[id].startDate
                    = Patched(rooms[roomId].seasonalPricing[id].startDate, updateData.startDate)
               /\ rooms'[roomId].seasonalPricing[id].endDate
                    = Patched(rooms[roomId].seasonalPricing[id].endDate, updateData.endDate)
               /\ OthersKept(rooms[roomId].seasonalPricing, rooms'[roomId].seasonalPricing, id)
  /\ resp'.op = "updateDiscount" =>
       \A roomId \in RoomIds, id \in EntryRefs, updateData \in DiscountUpdates :
          ( /\ Idle /\ roomId \in DOMAIN rooms /\ id \in DOMAIN rooms[roomId].discounts
            /\ (updateData.validFrom # Absent \/ updateData.validUntil # Absent
                  \/ updateData.type # "absent")
            /\ updateData.validFrom # NaD /\ updateData.validUntil # NaD
            /\ UpdateDiscount(id, roomId, updateData) ) =>
          IF DiscountUpdateRefused(roomId, id, updateData)
          THEN resp'.code = 400 /\ rooms' = rooms
          ELSE /\ resp'.code = 200
               /\ rooms'[roomId].discounts[id].validFrom
                    = Patched(rooms[roomId].discounts[id].validFrom, updateData.validFrom)
               /\ rooms'[roomId].discounts[id].validUntil
                    = Patched(rooms[roomId].discounts[id].validUntil, updateData.validUntil)
               /\ OthersKept(rooms[roomId].discounts, rooms'[roomId].discounts, id)

\* an update step that submits the entry's own dates (and type) is answered 200
ResubmitSucceeds ==
  /\ resp'.op = "updateSeasonalPricing" =>
       \A roomId \in RoomIds, id \in EntryRefs, updateData \in SeasonalUpdates :
          ( /\ Idle /\ roomId \in DOMAIN rooms /\ id \in DOMAIN rooms[roomId].seasonalPricing
            /\ updateData.startDate = rooms[roomId].seasonalPricing[id].startDate
            /\ updateData.endDate = rooms[roomId].seasonalPricing[id].endDate
            /\ UpdateSeasonalPricing(id, roomId, updateData) ) =>
          resp'.code = 200 /\ rooms' = rooms
  /\ resp'.op = "updateDiscount" =>
       \A roomId \in RoomIds, id \in EntryRefs, updateData \in DiscountUpdates :
          ( /\ Idle /\ roomId \in DOMAIN rooms /\ id \in DOMAIN rooms[roomId].discounts
            /\ updateData.validFrom = rooms[roomId].discounts[id].validFrom
            /\ updateData.validUntil = rooms[roomId].discounts[id].validUntil
            /\ updateData.type = rooms[roomId].discounts[id].type
            /\ UpdateDiscount(id, roomId, updateData) ) =>
          resp'.code = 200 /\ rooms' = rooms

\* the part of C24 that is the handlers' own test
UpdateTestHolds == [][UpdateTested]_vars

\* C24: an update of the dates (or type) of an entry is refused with the room
\* unchanged exactly when the resulting interval overlaps another entry of the
\* room (of the resulting type, for discounts), a successful update leaves
\* the other entries unchanged, and submitting an entry's own dates again
\* succeeds.
C24_UpdateKeepsDisjoint == [][UpdateTested /\ ResubmitSucceeds]_vars

\* ------------------------------------------- maintenance next to bookings
\* updates that move a record's start, its end or its status
UpkeepUpdates == [startDate : {Absent, 0}, endDate : {Absent, MaxDate},
                  status : {"absent", "completed", "in-progress"}]

NextUpkeep ==
  \/ /\ Len(bookings) < MaxStays
     /\ \E body \in BookingBodies : CreateBooking("g1", body)
  \/ \E id \in StayRefs : CancelBooking(id)
  \/ /\ TotalMaintenance < MaxMaint /\ tasks = <<>>
     /\ \E roomId \in RoomRefs, body \in MaintenanceBodies : ManageRoomMaintenance(roomId, body)
  \/ /\ TotalMaintenance < MaxMaint /\ tasks = <<>>
     /\ \E roomIds \in OneRoom, maintenanceData \in BulkMaintenanceData :
          ScheduleBulkMaintenance(roomIds, maintenanceData)
  \/ \E roomId \in RoomRefs, maintenanceId \in 1..(MaxMaint + 1), updateData \in UpkeepUpdates :
        UpdateMaintenance(roomId, maintenanceId, updateData)
  \/ \E t \in 1..MaxMaint : TaskFind(t)
  \/ \E t \in 1..MaxMaint : TaskCheck(t)
  \/ \E t \in 1..MaxMaint : TaskSave(t)
  \/ \E req \in 1..MaxMaint : Respond(req)
  \/ EndRequest

SpecUpkeep == Init /\ [][NextUpkeep]_vars

\* C25: no scheduled or in-progress maintenance record (with start before
\* end) of a room overlaps a booking of that room (with checkIn before
\* checkOut) that is not cancelled.
C25_NoMaintenanceOverBooking ==
  \A r \in DOMAIN rooms : \A k \in DOMAIN rooms[r].maintenanceHistory :
    LET m == rooms[r].maintenanceHistory[k] IN
    (ActiveMaintenance(m) /\ m.startDate < m.endDate) =>
      \A i \in DOMAIN bookings :
        (bookings[i].room = r /\ Live(bookings[i]) /\ WellFormedStay(bookings[i])) =>
          ~Overlaps(m.startDate, m.endDate, bookings[i].checkIn, bookings[i].checkOut)

\* ------------------------------------------- room.status under maintenance
\* the windows and statuses the maintenance requests carry here
StatusWindows == {[startDate |-> 0, endDate |-> 1], [startDate |-> 1, endDate |-> 2]}
StatusBodies ==
  {[maintenanceType |-> "repair", startDate |-> w.startDate, endDate |-> w.endDate, status |-> st] :
      w \in StatusWindows, st \in {"absent", "in-progress"}}
StatusBulkData ==
  {[type |-> "repair", startDate |-> w.startDate, endDate |-> w.endDate, status |-> "in-progress"] :
      w \in StatusWindows}
StatusUpdates == [startDate : {Absent}, endDate : {Absent},
                  status : {"completed", "in-progress", "cancelled"}]

NextStatus ==
  \/ /\ TotalMaintenance < MaxEntries /\ tasks = <<>>
     /\ \E roomId \in RoomRefs, body \in StatusBodies : ManageRoomMaintenance(roomId, body)
  \/ /\ TotalMaintenance < MaxEntries /\ tasks = <<>>
     /\ \E roomIds \in OneRoom, maintenanceData \in StatusBulkData :
          ScheduleBulkMaintenance(roomIds, maintenanceData)
  \/ \E roomId \in RoomRefs, maintenanceId \in EntryRefs, updateData \in StatusUpdates :
        UpdateMaintenance(roomId, maintenanceId, updateData)
  \/ \E t \in 1..MaxInFlight : TaskFind(t)
  \/ \E t \in 1..MaxInFlight : TaskCheck(t)
  \/ \E t \in 1..MaxInFlight : TaskSave(t)
  \/ \E req \in 1..MaxInFlight : Respond(req)
  \/ EndRequest

SpecStatus == Init /\ [][NextStatus]_vars

\* C26: a room that holds a maintenance record with status in-progress has
\* status maintenance.
C26_StatusTracksMaintenance ==
  \A r \in DOMAIN rooms :
    (\E k \in DOMAIN rooms[r].maintenanceHistory :
        rooms[r].maintenanceHistory[k].status = "in-progress")
    => rooms[r].status = "maintenance"

\* ----------------------------------------------- the owner and the price
\* bodies that bring a guest and a totalPrice of their own
OwnedBodies == [room : RoomRefs, checkIn : DateInputs, checkOut : DateInputs,
                guest : {"g2"}, totalPrice : {1}]

NextOwner ==
  \/ /\ Len(bookings) < MaxBookings
     /\ \E body \in OwnedBodies : CreateBooking("g1", body)
  \/ EndRequest

SpecOwner == Init /\ [][NextOwner]_vars

\* C27: createBooking for a body that brings its own guest and totalPrice: if
\* the room is not stored the answer is 404 and no booking is stored; a
\* booking that is stored has the authenticated user as guest and the number
\* of nights times the room's pricePerNight as totalPrice.
C27_OwnerAndPrice ==
  [][\A body \in OwnedBodies :
        (Idle /\ CreateBooking("g1", body)) =>
          IF body.room \notin DOMAIN rooms
          THEN resp'.code = 404 /\ bookings' = bookings
          ELSE \/ bookings' = bookings /\ resp'.code = 400
               \/ /\ resp'.code = 201
                  /\ Len(bookings') = Len(bookings) + 1
                  /\ SubSeq(bookings', 1, Len(bookings)) = bookings
                  /\ bookings'[Len(bookings')].guest = "g1"
                  /\ bookings'[Len(bookings')].room = body.room
                  /\ bookings'[Len(bookings')].totalPrice
                       = (body.checkOut - body.checkIn) * rooms[body.room].pricePerNight
    ]_vars

\* a two-night booking of r2 is stored for g1 at 300, the body said g2 and 1
C27_Witness ==
  /\ resp = [op |-> "createBooking", code |-> 201]
  /\ \E i \in DOMAIN bookings :
        /\ bookings[i].room = "r2" /\ bookings[i].checkIn = 0 /\ bookings[i].checkOut = 2
        /\ bookings[i].guest = "g1" /\ bookings[i].totalPrice = 300

\* ------------------------------------------------- payment, requests, add-ons
\* getAllBookings: Booking.find() with the query's filters
GetAllBookings ==
  /\ Idle
  /\ resp' = [op |-> "getAllBookings", code |-> 200]
  /\ UNCHANGED <<rooms, bookings, tasks, probe, users, registers>>

\* getBooking: Booking.findById(req.params.id)
GetBooking(id) ==
  /\ Idle
  /\ resp' = [op |-> "getBooking", code |-> IF id \in DOMAIN bookings THEN 200 ELSE 404]
  /\ UNCHANGED <<rooms, bookings, tasks, probe, users, registers>>

\* updatePayment: Booking.findByIdAndUpdate(id, {paymentStatus, paymentDetails},
\* {runValidators: true})
UpdatePayment(id, body) ==
  /\ Idle
  /\ IF body.paymentStatus \notin PAYMENT_STATUS
     THEN /\ resp' = [op |-> "updatePayment", code |-> 400]
          /\ UNCHANGED bookings
     ELSE IF id \notin DOMAIN bookings
     THEN /\ resp' = [op |-> "updatePayment", code |-> 404]
          /\ UNCHANGED bookings
     ELSE /\ bookings' = [bookings EXCEPT ![id].paymentStatus = body.paymentStatus]
          /\ resp' = [op |-> "updatePayment", code |-> 200]
  /\ UNCHANGED <<rooms, tasks, probe, users, registers>>

\* addSpecialRequests: Booking.findByIdAndUpdate(id, {specialRequests}); the
\* text is no part of the state
AddSpecialRequests(id) ==
  /\ Idle
  /\ resp' = [op |-> "addSpecialRequests", code |-> IF id \in DOMAIN bookings THEN 200 ELSE 404]
  /\ UNCHANGED <<rooms, bookings, tasks, probe, users, registers>>

\* the most add-ons a booking of the model carries
MaxAddOns == 2

\* a totalPrice that is NaN
NaNPrice == -3

\* a + b and a * b on prices; undefined (Absent) as an operand gives NaN
PricePlus(a, b) ==
  IF a \in {NaNPrice, Absent} \/ b \in {NaNPrice, Absent} THEN NaNPrice ELSE a + b
PriceTimes(a, b) ==
  IF a \in {NaNPrice, Absent} \/ b \in {NaNPrice, Absent} THEN NaNPrice ELSE a * b

\* req.body.addOns.reduce((acc, addon) => acc + (addon.price * addon.quantity), 0):
\* the values of the body as sent
RECURSIVE AddOnsTotal(_)
AddOnsTotal(addOns) ==
  IF addOns = <<>> THEN 0
  ELSE PricePlus(AddOnsTotal(SubSeq(addOns, 1, Len(addOns) - 1)),
                 PriceTimes(addOns[Len(addOns)].price, addOns[Len(addOns)].quantity))

\* the subdocument an add-on of the body is cast to: quantity defaults to 1
CastAddOn(addon) ==
  [price |-> addon.price, quantity |-> IF addon.quantity = Absent THEN 1 ELSE addon.quantity]

\* the update {$inc: {totalPrice: by}} is cast before it is sent: Mongoose
\* refuses a NaN (Cast to Number failed), the store would add it
IncRefused(by) == IF by = NaNPrice THEN BOOLEAN ELSE {FALSE}

\* addAddOns: Booking.findByIdAndUpdate(id, {$push: {addOns: {$each}}, $inc: {totalPrice}})
AddAddOns(id, body) ==
  /\ Idle
  /\ \E refused \in IncRefused(AddOnsTotal(body.addOns)) :
       IF refused
       THEN /\ resp' = [op |-> "addAddOns", code |-> 400]
            /\ UNCHANGED bookings
       ELSE IF id \notin DOMAIN bookings
       THEN /\ resp' = [op |-> "addAddOns", code |-> 404]
            /\ UNCHANGED bookings
       ELSE /\ bookings' = [bookings EXCEPT
                 ![id].addOns = @ \o [k \in DOMAIN body.addOns |-> CastAddOn(body.addOns[k])],
                 ![id].totalPrice = PricePlus(@, AddOnsTotal(body.addOns))]
            /\ resp' = [op |-> "addAddOns", code |-> 200]
  /\ UNCHANGED <<rooms, tasks, probe, users, registers>>

\* ----------------------------------------------------------- booking router
\* a route of the booking router: protect, then its guard, then the handler
BookingRoute(method, path, guard, roles, handler) ==
  [method |-> method, path |-> path, guard |-> guard, roles |-> roles, handler |-> handler]

\* routes/booking.routes.js, in the order the routes are registered
BookingRoutes ==
  << BookingRoute("GET", <<>>, "none", NoRestriction, "getAllBookings"),
     BookingRoute("POST", <<>>, "none", NoRestriction, "createBooking"),
     BookingRoute("GET", <<":id">>, "checkOwnership", NoRestriction, "getBooking"),
     BookingRoute("PATCH", <<":id">>, "checkOwnership", NoRestriction, "updateBooking"),
     BookingRoute("DELETE", <<":id">>, "restrictTo", {"admin"}, "deleteBooking"),
     BookingRoute("PATCH", <<":id", "status">>, "restrictTo", STAFF_ROLES, "updateBookingStatus"),
     BookingRoute("PATCH", <<":id", "cancel">>, "checkOwnership", NoRestriction, "cancelBooking"),
     BookingRoute("PATCH", <<":id", "payment">>, "restrictTo", STAFF_ROLES, "updatePayment"),
     BookingRoute("PATCH", <<":id", "special-requests">>, "checkOwnership", NoRestriction,
                  "addSpecialRequests"),
     BookingRoute("PATCH", <<":id", "add-ons">>, "checkOwnership", NoRestriction, "addAddOns") >>

\* middleware/auth.js protect: the user of the request, or none (401);
\* req.changed is what user.passwordChangedAfter(decoded.iat) answers
AuthProtect(req) ==
  IF req.token = NoToken THEN NoUser
  ELSE IF req.token = BadToken THEN NoUser
  ELSE IF UserFindById(req.token.id) = NoUser THEN NoUser
  ELSE IF req.changed THEN NoUser
  ELSE req.token.id

\* req.user.id: the hex string of the user's _id
UserIdString(user) == [hex |-> user]

\* doc.guest.toString(): every find of a booking populates guest, so doc.guest
\* is a user document, and a document's toString() is its inspect string
GuestToString(guest) == [inspect |-> users[guest]]

\* the middleware calls next()
Granted == 0

\* checkOwnership(Booking): the status it answers, or Granted
CheckOwnership(id, user) ==
  IF id \notin DOMAIN bookings THEN 404
  ELSE IF UserFindById(bookings[id].guest) = NoUser
  THEN 400 \* the guest is populated as null: doc.guest.toString() throws
  ELSE IF GuestToString(bookings[id].guest) # UserIdString(user) /\ users[user].role # "admin"
  THEN 403
  ELSE Granted

\* the routes from the k-th on: the first whose method and path match runs
\* its middlewares
RECURSIVE BookingWalk(_, _, _)
BookingWalk(layers, req, k) ==
  IF k > Len(layers) THEN NotRouted(404)
  ELSE LET layer == layers[k] IN
    IF layer.method = req.method /\ Match(layer.path, req.path)
    THEN IF AuthProtect(req) = NoUser THEN NotRouted(401)
         ELSE IF layer.guard = "restrictTo" /\ ~RestrictTo(layer.roles, AuthProtect(req))
         THEN NotRouted(403)
         ELSE IF /\ layer.guard = "checkOwnership"
                 /\ CheckOwnership(req.path[1], AuthProtect(req)) # Granted
         THEN NotRouted(CheckOwnership(req.path[1], AuthProtect(req)))
         ELSE [handler |-> layer.handler, code |-> 0, user |-> AuthProtect(req)]
    ELSE BookingWalk(layers, req, k + 1)

\* the handler the booking router gives the request to
BookingRouter(req) == BookingWalk(BookingRoutes, req, 1)

\* the most bookings, and add-ons of a booking, the routed requests build up
MaxRouted == 1

\* the bodies the requests to the booking routes bring
PatchBodies == [checkIn : {Absent}, checkOut : {Absent}, status : {"checked-in"},
                paymentStatus : {"paid"}, guest : {2}, totalPrice : {1}]
PaymentBodies == [paymentStatus : {"paid", "bogus"}]
AddOnInputs == [price : {10}, quantity : {Absent, 2}]
AddOnBodies == [addOns : {<<a>> : a \in AddOnInputs}]

\* the handler runs with the request's parameters, its user and a body
InvokeBooking(handler, req, user) ==
  CASE handler = "getAllBookings" -> GetAllBookings
    [] handler = "createBooking" ->
         /\ Len(bookings) < MaxRouted
         /\ CreateBooking(user, [room |-> "r1", checkIn |-> 0, checkOut |-> 1])
    [] handler = "getBooking" -> GetBooking(req.path[1])
    [] handler = "updateBooking" -> \E body \in PatchBodies : UpdateBooking(req.path[1], body)
    [] handler = "deleteBooking" -> DeleteBooking(req.path[1])
    [] handler = "updateBookingStatus" ->
         \E status \in StatusInputs : UpdateBookingStatus(req.path[1], status)
    [] handler = "cancelBooking" -> CancelBooking(req.path[1])
    [] handler = "updatePayment" -> \E body \in PaymentBodies : UpdatePayment(req.path[1], body)
    [] handler = "addSpecialRequests" -> AddSpecialRequests(req.path[1])
    [] handler = "addAddOns" ->
         /\ req.path[1] \in DOMAIN bookings =>
              Len(bookings[req.path[1]].addOns) < MaxRouted
         /\ \E body \in AddOnBodies : AddAddOns(req.path[1], body)

\* a request to the booking router: the middlewares of its route, then the handler
BookingRequest(req) ==
  IF BookingRouter(req).handler = "none"
  THEN /\ Idle
       /\ resp' = [op |-> "router", code |-> BookingRouter(req).code]
       /\ UNCHANGED <<rooms, bookings, tasks, probe, users, registers>>
  ELSE InvokeBooking(BookingRouter(req).handler, req, BookingRouter(req).user)

\* the requests to the booking routes the model draws
BookingPaths ==
  { [method |-> "GET", path |-> <<>>], [method |-> "POST", path |-> <<>>] }
  \cup { [method |-> m, path |-> <<id>>] : m \in {"GET", "PATCH", "DELETE"}, id \in 1..MaxBookings }
  \cup { [method |-> "PATCH", path |-> <<id, a>>] :
           id \in 1..MaxBookings, a \in {"status", "cancel", "payment", "special-requests", "add-ons"} }
BookingRequests ==
  {[method |-> p.method, path |-> p.path, token |-> t, changed |-> c] :
     p \in BookingPaths, t \in Tokens, c \in BOOLEAN}

\* John, a guest, has booked r1; one more user is registered
InitOwnership ==
  /\ rooms = InitRooms
  /\ \E role \in ALL_ROLES :
        users = <<[firstName |-> "John", email |-> "john@example.com",
                   password |-> "password123", role |-> "guest"],
                  [firstName |-> "John", email |-> "jane@example.com",
                   password |-> "password456", role |-> role]>>
  /\ bookings = <<NewBooking(1, [room |-> "r1", checkIn |-> 0, checkOut |-> 1], rooms["r1"])>>
  /\ tasks = <<>>
  /\ resp = NoResp
  /\ probe = NoProbe
  /\ registers = <<>>

NextOwnership ==
  \/ \E req \in BookingRequests : BookingRequest(req)
  \/ \E i \in DOMAIN bookings : DeleteUser(bookings[i].guest)
  \/ EndRequest

SpecOwnership == InitOwnership /\ [][NextOwnership]_vars

\* the request carries a valid token of a stored user
TokenUser(req) == IF AuthProtect(req) = NoUser THEN NoUser ELSE req.token.id

\* the booking's status, paymentStatus, guest and totalPrice
Protected(b) == <<b.status, b.paymentStatus, b.guest, b.totalPrice>>

\* a request that does not come from a user with role staff, manager or admin
\* leaves status, paymentStatus, guest and totalPrice of every stored booking
\* as they are and removes none, except that the owner's request to
\* /:id/cancel may set the status to 'cancelled'
OnlyStaffChange ==
  \A req \in BookingRequests :
     (/\ bookings' # bookings
      /\ TokenUser(req) = NoUser \/ users[TokenUser(req)].role \notin STAFF_ROLES
      /\ Idle
      /\ BookingRequest(req)) =>
        /\ Len(bookings') >= Len(bookings)
        /\ \A i \in DOMAIN bookings :
              \/ Protected(bookings'[i]) = Protected(bookings[i])
              \/ /\ req.method = "PATCH" /\ req.path = <<i, "cancel">>
                 /\ bookings[i].guest = TokenUser(req)
                 /\ Protected(bookings'[i]) = Protected([bookings[i] EXCEPT !.status = "cancelled"])

\* the owner's request to /:id/cancel sets the status of the booking to 'cancelled'
OwnerCancels ==
  \A req \in BookingRequests :
     (/\ req.method = "PATCH" /\ Len(req.path) = 2 /\ req.path[2] = "cancel"
      /\ req.path[1] \in DOMAIN bookings
      /\ TokenUser(req) # NoUser
      /\ bookings[req.path[1]].guest = TokenUser(req)
      /\ Idle
      /\ BookingRequest(req)) =>
        /\ resp'.code = 200
        /\ bookings'[req.path[1]].status = "cancelled"

OnlyStaffChangeHolds == [][OnlyStaffChange]_vars

\* C28: status, paymentStatus, guest and totalPrice of a booking are changed
\* only by requests of users with role staff, manager or admin; the one
\* exception is the owner, whose request to /:id/cancel sets the status to
\* 'cancelled'; the owner's PATCH /:id changes none of the four.
C28_OnlyStaffChange == [][OnlyStaffChange /\ OwnerCancels]_vars

\* ------------------------------------------------------------------ add-ons
\* the add-on lists a request brings
AddOnLists ==
  {<<a>> : a \in AddOnInputs} \cup {<<a, b>> : a \in AddOnInputs, b \in AddOnInputs}

NextAddOns ==
  \/ /\ Len(bookings) < MaxBookings
     /\ CreateBooking("g1", [room |-> "r1", checkIn |-> 0, checkOut |-> 1])
  \/ \E id \in BookingRefs, addOns \in AddOnLists :
        /\ id \in DOMAIN bookings => Len(bookings[id].addOns) + Len(addOns) <= MaxAddOns
        /\ AddAddOns(id, [addOns |-> addOns])
  \/ EndRequest

SpecAddOns == Init /\ [][NextAddOns]_vars

\* the sum over the add-ons of price * quantity, a missing quantity counting 1
RECURSIVE PriceOfAddOns(_)
PriceOfAddOns(addOns) ==
  IF addOns = <<>> THEN 0
  ELSE PriceOfAddOns(SubSeq(addOns, 1, Len(addOns) - 1))
         + CastAddOn(addOns[Len(addOns)]).price * CastAddOn(addOns[Len(addOns)]).quantity

\* what the request leaves behind when it did as C29 says
AddOnsAdded(id, addOns) ==
  /\ resp'.code = 200
  /\ bookings'[id].totalPrice # NaNPrice
  /\ bookings'[id].totalPrice = bookings[id].totalPrice + PriceOfAddOns(addOns)
  /\ bookings'[id].addOns = bookings[id].addOns \o [k \in DOMAIN addOns |-> CastAddOn(addOns[k])]
  /\ bookings' = [bookings EXCEPT ![id].totalPrice = bookings'[id].totalPrice,
                                  ![id].addOns = bookings'[id].addOns]

\* add-ons that all bring their quantity are added as C29 says
AddOnsWithQuantityHold ==
  [][\A id \in BookingRefs, addOns \in AddOnLists :
        (/\ resp'.op = "addAddOns"
         /\ id \in DOMAIN bookings
         /\ bookings[id].totalPrice # NaNPrice
         /\ \A k \in DOMAIN addOns : addOns[k].quantity # Absent
         /\ Idle
         /\ AddAddOns(id, [addOns |-> addOns])) => AddOnsAdded(id, addOns)
    ]_vars

\* C29: an addAddOns request for a stored booking, with add-ons that bring a
\* price and may leave out the quantity, is answered 200; afterwards the
\* booking's totalPrice is the previous totalPrice plus the sum of price *
\* quantity over the added add-ons, a missing quantity counting 1, the add-ons
\* are appended to addOns, and totalPrice is a number.
C29_AddOnsPrice ==
  [][\A id \in BookingRefs, addOns \in AddOnLists :
        (/\ resp'.op = "addAddOns"
         /\ id \in DOMAIN bookings
         /\ bookings[id].totalPrice # NaNPrice
         /\ Idle
         /\ AddAddOns(id, [addOns |-> addOns])) => AddOnsAdded(id, addOns)
    ]_vars

\* ---------------------------------------------------- reaching the handlers
\* a path segment Room.findById can cast to an ObjectId
ValidObjectId(id) == id \in RoomRefs

\* getRoomById: Room.findById(req.params.id); a cast error is caught (500)
GetRoomById(id) ==
  /\ Idle
  /\ resp' = [op |-> "getRoomById",
              code |-> IF ~ValidObjectId(id) THEN 500
                       ELSE IF id \in DOMAIN rooms THEN 200 ELSE 404]
  /\ UNCHANGED <<rooms, bookings, tasks, users, registers>>

\* a path the route's pattern is written for: r1 for each parameter
PathOf(pattern) == [k \in DOMAIN pattern |-> IF pattern[k] \in Params THEN "r1" ELSE pattern[k]]

\* the requests the model draws: for every route its method and a path of its
\* pattern, with each token
RouteRequests ==
  {[method |-> RoomRoutes[k].method, path |-> PathOf(RoomRoutes[k].path), token |-> t] :
     k \in {j \in DOMAIN RoomRoutes : RoomRoutes[j].method # "USE"}, t \in Tokens}

\* the room router hands the request to the first layer that takes it; probe
\* keeps the request and the handler that was called. getRoomById answers as
\* it does, the other handlers' answers are left open.
DispatchRoomRequest(req) ==
  /\ probe' = [site |-> "room router", req |-> req, handler |-> RoomRouter(req).handler]
  /\ IF RoomRouter(req).handler = "none"
     THEN /\ Idle
          /\ resp' = [op |-> "router", code |-> RoomRouter(req).code]
          /\ UNCHANGED <<rooms, bookings, tasks, users, registers>>
     ELSE IF RoomRouter(req).handler = "getRoomById"
     THEN GetRoomById(req.path[1])
     ELSE /\ Idle
          /\ resp' = [op |-> RoomRouter(req).handler]
          /\ UNCHANGED <<rooms, bookings, tasks, users, registers>>

NextRoutes ==
  \/ \E req \in RouteRequests : DispatchRoomRequest(req)
  \/ EndRequest

SpecRoutes == InitAdmin /\ [][NextRoutes]_vars

\* the request carries a valid token of a stored staff, manager or admin user
StaffToken(token) ==
  /\ token \notin {NoToken, BadToken}
  /\ token.id \in DOMAIN users
  /\ users[token.id] # DeletedUser
  /\ users[token.id].role \in STAFF_ROLES

\* the handlers the router registers
RoomHandlers == {RoomRoutes[k].handler : k \in {j \in DOMAIN RoomRoutes : RoomRoutes[j].method # "USE"}}

\* some request of a stored user reaches the handler
Reached(handler) == \E req \in RouteRequests : RoomRouter(req).handler = handler

\* every handler but getRoomStatistics is reached by some request
OtherHandlersReached == \A handler \in RoomHandlers \ {"getRoomStatistics"} : Reached(handler)

\* C30: a GET /statistics request with the token of a stored staff, manager
\* or admin user is given to getRoomStatistics, and every other handler the
\* router registers is reached by some request.
C30_StatisticsReachable ==
  /\ (/\ probe.site = "room router"
      /\ probe.req.method = "GET" /\ probe.req.path = <<"statistics">>
      /\ StaffToken(probe.req.token)) => probe.handler = "getRoomStatistics"
  /\ OtherHandlersReached

====
